---- MODULE Spec2Model ----
(***************************************************************************)
(* Conversational appointment booking: the chat route's slot-filling turn  *)
(* handler, the booking rules and the commit (validateAndSave).            *)
(*                                                                         *)
(* Time is counted in minutes of local wall-clock time from 00:00 of       *)
(* Day0Date (a Saturday).  Every day has 1440 minutes (no DST change in    *)
(* the modelled window).  Strings keep the program's conventions: the      *)
(* empty string stands for a field that is undefined/null/"" (all falsy in *)
(* the program), dates are "YYYY-MM-DD" and times "HH:MM".                 *)
(***************************************************************************)
EXTENDS Integers, Sequences, FiniteSets, TLC

\* ------------------------------------------------------------------------
\* Bounds of the model
\* ------------------------------------------------------------------------
\* number of conversations that can be opened
MaxConv == 2
\* turns submitted over all conversations
MaxTurns == 2
\* how many times the clock advances
MaxTicks == 1

\* ------------------------------------------------------------------------
\* bookingRules.ts
\* ------------------------------------------------------------------------
BUFFER_MIN == 5
SAME_DAY_MIN_LEAD_MIN == 60

DayMinutes == 24 * 60
\* luxon weekday numbers: monday = 1 .. sunday = 7
Day0Weekday == 6

\* an invalid DateTime (parseStart returns null)
Invalid == -1

SERVICES ==
  [s \in {"Haircut (Standard)", "Beard Trim", "Wash & Style", "Head Shave",
          "Kids Haircut", "Buzz Cut"} |->
     CASE s = "Haircut (Standard)" -> 30
       [] s = "Beard Trim" -> 15
       [] s = "Wash & Style" -> 15
       [] s = "Head Shave" -> 45
       [] s = "Kids Haircut" -> 25
       [] s = "Buzz Cut" -> 15]

\* minutes of the day of open and close per luxon weekday; closed = FALSE
HOURS ==
  [w \in 1..7 |->
     CASE w \in {1, 2, 3} -> [isOpen |-> TRUE, open |-> 9 * 60, close |-> 18 * 60]
       [] w \in {4, 5} -> [isOpen |-> TRUE, open |-> 10 * 60, close |-> 20 * 60]
       [] w = 6 -> [isOpen |-> TRUE, open |-> 9 * 60, close |-> 16 * 60]
       [] w = 7 -> [isOpen |-> FALSE, open |-> 0, close |-> 0]]

\* calendar dates the model knows, day index = position - 1
DateTable ==
  <<"2026-02-07", "2026-02-08", "2026-02-09", "2026-02-10", "2026-02-11",
    "2026-02-12", "2026-02-13", "2026-02-14", "2026-02-15", "2026-02-16">>

\* wall-clock strings the model knows, with their minute of the day
TimeTable ==
  << <<"00:00", 0>>, <<"08:30", 510>>, <<"12:00", 720>>, <<"12:30", 750>>,
     <<"13:00", 780>>, <<"15:30", 930>> >>

Digit(n) == CASE n = 0 -> "0" [] n = 1 -> "1" [] n = 2 -> "2" [] n = 3 -> "3"
              [] n = 4 -> "4" [] n = 5 -> "5" [] n = 6 -> "6" [] n = 7 -> "7"
              [] n = 8 -> "8" [] n = 9 -> "9"

\* n.toString().padStart(2, "0") for 0 <= n <= 99
Pad2(n) == Digit(n \div 10) \o Digit(n % 10)

\* the day index of an ISO date string, Invalid when it is not a date
DayOfDateStr(s) ==
  IF \E i \in 1..Len(DateTable) : DateTable[i] = s
    THEN (CHOOSE i \in 1..Len(DateTable) : DateTable[i] = s) - 1
    ELSE Invalid

\* DateTime.toISODate() of the day with index d
toISODate(d) == DateTable[d + 1]

\* the minute of the day of an "HH:MM" string, Invalid when it is not a time
MinuteOfTimeStr(s) ==
  IF \E i \in 1..Len(TimeTable) : TimeTable[i][1] = s
    THEN TimeTable[CHOOSE i \in 1..Len(TimeTable) : TimeTable[i][1] = s][2]
    ELSE Invalid

DayOf(t) == t \div DayMinutes
WeekdayOf(t) == ((Day0Weekday - 1 + DayOf(t)) % 7) + 1

parseStart(date, time) ==
  IF DayOfDateStr(date) = Invalid \/ MinuteOfTimeStr(time) = Invalid
    THEN Invalid
    ELSE DayOfDateStr(date) * DayMinutes + MinuteOfTimeStr(time)

\* 0 stands for null (both are falsy where the result is tested)
minutesForService(serviceName) ==
  IF serviceName \in DOMAIN SERVICES THEN SERVICES[serviceName] ELSE 0

\* isWithinBusinessHours rejecting an end exactly at the closing time
isWithinBusinessHours_EndBeforeClose(start, end) ==
  LET hours == HOURS[WeekdayOf(start)]
      open == DayOf(start) * DayMinutes + hours.open
      close == DayOf(start) * DayMinutes + hours.close
  IN  IF ~hours.isOpen THEN [ok |-> FALSE, reason |-> "Shop is closed that day."]
      ELSE IF start < open THEN [ok |-> FALSE, reason |-> "Too early. Opens at"]
      ELSE IF end >= close THEN [ok |-> FALSE, reason |-> "Too late. Closes at"]
      ELSE [ok |-> TRUE, reason |-> ""]

isWithinBusinessHours(start, end) ==
  LET hours == HOURS[WeekdayOf(start)]
      open == DayOf(start) * DayMinutes + hours.open
      close == DayOf(start) * DayMinutes + hours.close
  IN  IF ~hours.isOpen THEN [ok |-> FALSE, reason |-> "Shop is closed that day."]
      ELSE IF start < open THEN [ok |-> FALSE, reason |-> "Too early. Opens at"]
      ELSE IF end > close THEN [ok |-> FALSE, reason |-> "Too late. Closes at"]
      ELSE [ok |-> TRUE, reason |-> ""]

\* enforceSameDayLead asking for the lead time on every day
enforceSameDayLead_AnyDay(start, n) ==
  IF start - n < SAME_DAY_MIN_LEAD_MIN
    THEN [ok |-> FALSE, reason |-> "Same-day bookings must be at least 60 minutes in advance."]
  ELSE [ok |-> TRUE, reason |-> ""]

enforceSameDayLead(start, now) ==
  IF DayOf(start) # DayOf(now) THEN [ok |-> TRUE, reason |-> ""]
  ELSE IF start - now < SAME_DAY_MIN_LEAD_MIN
    THEN [ok |-> FALSE, reason |-> "Same-day bookings must be at least 60 minutes in advance."]
  ELSE [ok |-> TRUE, reason |-> ""]

\* ------------------------------------------------------------------------
\* Drafts (route.ts type Draft, ai.ts type ExtractedBooking)
\* ------------------------------------------------------------------------
\* confirmed is "undefined", "true" or "false"
EmptyDraft ==
  [serviceName |-> "", date |-> "", time |-> "", customerName |-> "",
   customerPhone |-> "", customerEmail |-> "", confirmed |-> "undefined"]

\* ------------------------------------------------------------------------
\* ai.ts extractBookingInfo
\* ------------------------------------------------------------------------
weekdayMap ==
  [w \in {"monday", "tuesday", "wednesday", "thursday", "friday", "saturday",
          "sunday"} |->
     CASE w = "monday" -> 1 [] w = "tuesday" -> 2 [] w = "wednesday" -> 3
       [] w = "thursday" -> 4 [] w = "friday" -> 5 [] w = "saturday" -> 6
       [] w = "sunday" -> 7]

\* A turn text is described by what the program's patterns find in it:
\*   tomorrow, today : \btomorrow\b, \btoday\b
\*   weekday         : the weekday name matched, "" when none
\*   noon, midnight  : \bnoon\b, \bmidnight\b
\*   ap, h, m        : the H[:MM] am|pm match (ap = "" when none)
\*   confirmKw, cancelKw : the confirmation / cancellation keyword patterns
\*   greet, asksInfo, asksAvail : isGreetingOnly, asksServices or
\*                     asksServiceDuration or asksHours, asksAvailability

\* the computed date that is today when the text names today's weekday
computedDate_TodayForOwnWeekday(msg, now) ==
  IF msg.tomorrow THEN toISODate(DayOf(now) + 1)
  ELSE IF msg.today THEN toISODate(DayOf(now))
  ELSE IF msg.weekday # ""
    THEN toISODate(DayOf(now)
                     + ((weekdayMap[msg.weekday] - WeekdayOf(now) + 7) % 7))
  ELSE ""

\* the date computed from the relative-date phrase, "" when there is none
computedDate(msg, now) ==
  IF msg.tomorrow THEN toISODate(DayOf(now) + 1)
  ELSE IF msg.today THEN toISODate(DayOf(now))
  ELSE IF msg.weekday # ""
    THEN LET weekday == weekdayMap[msg.weekday]
             d == (weekday - WeekdayOf(now) + 7) % 7
             daysToAdd == IF d = 0 THEN 7 ELSE d
         IN  toISODate(DayOf(now) + daysToAdd)
  ELSE ""

\* the time produced by the noon / midnight / am-pm rules, "" when none
fallbackTime(msg) ==
  IF msg.noon THEN "12:00"
  ELSE IF msg.midnight THEN "00:00"
  ELSE IF msg.ap # ""
    THEN LET h1 == IF msg.ap = "pm" /\ msg.h < 12 THEN msg.h + 12 ELSE msg.h
             hour == IF msg.ap = "am" /\ h1 = 12 THEN 0 ELSE h1
         IN  IF hour >= 0 /\ hour <= 23 /\ msg.m >= 0 /\ msg.m <= 59
               THEN Pad2(hour) \o ":" \o Pad2(msg.m)
               ELSE ""
  ELSE ""

\* the merge taking every extracted value, empty or not
mergeExtracted_TakeExtracted(previousData, extracted) ==
  [extracted EXCEPT !.confirmed =
     IF extracted.confirmed # "undefined" THEN extracted.confirmed
     ELSE previousData.confirmed]

\* lines 99-110: previous data overwritten by the truthy extracted values
mergeExtracted(previousData, extracted) ==
  [serviceName |-> IF extracted.serviceName # "" THEN extracted.serviceName
                   ELSE previousData.serviceName,
   date |-> IF extracted.date # "" THEN extracted.date ELSE previousData.date,
   time |-> IF extracted.time # "" THEN extracted.time ELSE previousData.time,
   customerName |-> IF extracted.customerName # "" THEN extracted.customerName
                    ELSE previousData.customerName,
   customerPhone |-> IF extracted.customerPhone # "" THEN extracted.customerPhone
                     ELSE previousData.customerPhone,
   customerEmail |-> IF extracted.customerEmail # "" THEN extracted.customerEmail
                     ELSE previousData.customerEmail,
   confirmed |-> IF extracted.confirmed # "undefined" THEN extracted.confirmed
                 ELSE previousData.confirmed]

\* the date fallback that takes the computed date whenever the text has a
\* relative-date phrase
applyDateFallback_AlwaysComputed(result, msg, now) ==
  LET cd == computedDate(msg, now)
  IN  IF cd # "" THEN [result EXCEPT !.date = cd] ELSE result

\* lines 142-148
applyDateFallback(result, msg, now) ==
  LET cd == computedDate(msg, now)
      extractedDay == DayOfDateStr(result.date)
  IN  IF cd # "" /\ (result.date = "" \/ extractedDay = Invalid
                     \/ WeekdayOf(extractedDay * DayMinutes)
                          # WeekdayOf(DayOfDateStr(cd) * DayMinutes))
        THEN [result EXCEPT !.date = cd]
        ELSE result

\* lines 150-168
applyTimeFallback(result, msg) ==
  IF result.time = "" /\ fallbackTime(msg) # ""
    THEN [result EXCEPT !.time = fallbackTime(msg)]
    ELSE result

\* lines 170-177: the cancellation test runs after the confirmation test
applyConfirmFallback(result, msg) ==
  IF result.confirmed = "undefined"
    THEN IF msg.cancelKw THEN [result EXCEPT !.confirmed = "false"]
         ELSE IF msg.confirmKw THEN [result EXCEPT !.confirmed = "true"]
         ELSE result
    ELSE result

\* llm.kind: "json" (an object was parsed, fields in llm.fields), "nojson"
\* (no {...} in the response: extracted stays {}), "badjson" (JSON.parse
\* throws: previousData is returned as is)
extractBookingInfo(msg, previousData, llm, now) ==
  IF llm.kind = "badjson" THEN previousData
  ELSE LET extracted == IF llm.kind = "json" THEN llm.fields ELSE EmptyDraft
       IN  applyConfirmFallback(
             applyTimeFallback(
               applyDateFallback(mergeExtracted(previousData, extracted), msg, now),
               msg),
             msg)

\* ------------------------------------------------------------------------
\* route.ts helpers
\* ------------------------------------------------------------------------
\* SERVICE_ALIASES in the order of its keys
SERVICE_ALIASES ==
  << <<"haircut", "Haircut (Standard)">>, <<"haircuts", "Haircut (Standard)">>,
     <<"standard haircut", "Haircut (Standard)">>,
     <<"haircut standard", "Haircut (Standard)">>,
     <<"beard trim", "Beard Trim">>, <<"beard", "Beard Trim">>,
     <<"wash & style", "Wash & Style">>, <<"wash", "Wash & Style">>,
     <<"style", "Wash & Style">>, <<"head shave", "Head Shave">>,
     <<"shave", "Head Shave">>, <<"kids haircut", "Kids Haircut">>,
     <<"kids", "Kids Haircut">>, <<"buzz cut", "Buzz Cut">>,
     <<"buzz", "Buzz Cut">> >>

\* name.trim().toLowerCase() of the service names the model feeds in
LowerTrim(name) ==
  CASE name = "Haircut (Standard)" -> "haircut (standard)"
    [] name = "Head Shave" -> "head shave"
    [] name = "haircut" -> "haircut"
    [] name = " Fresh Haircut " -> "fresh haircut"
    [] name = "Massage" -> "massage"
    [] OTHER -> name

\* lower.includes(key) for those names
IncludesKey(lower, key) ==
  \/ lower = key
  \/ <<lower, key>> \in {<<"haircut (standard)", "haircut">>,
                         <<"fresh haircut", "haircut">>,
                         <<"head shave", "shave">>}

\* lines 50-60; "" stands for undefined
normalizeServiceName(name) ==
  IF name = "" THEN ""
  ELSE IF name \in DOMAIN SERVICES THEN name
  ELSE LET lower == LowerTrim(name)
           hits == {i \in 1..Len(SERVICE_ALIASES) :
                      IncludesKey(lower, SERVICE_ALIASES[i][1])}
       IN  IF hits # {}
             THEN SERVICE_ALIASES[CHOOSE i \in hits : \A j \in hits : i <= j][2]
             ELSE name

RequiredFields ==
  <<"serviceName", "date", "time", "customerName", "customerPhone",
    "customerEmail">>

\* missingFields asking for a confirmation as well
missingFields_RequiresConfirmed(d) ==
  {RequiredFields[i] : i \in {j \in 1..6 : d[RequiredFields[j]] = ""}}
    \cup (IF d.confirmed = "undefined" THEN {"confirmed"} ELSE {})

\* lines 76-86, as the set of the missing keys
missingFields(d) == {RequiredFields[i] : i \in {j \in 1..6 : d[RequiredFields[j]] = ""}}

\* the prompts with date and time asked before the service
missingPrompt_DateBeforeService(missing) ==
  IF "date" \in missing /\ "time" \in missing THEN "askDateTime"
  ELSE IF "date" \in missing THEN "askDate"
  ELSE IF "time" \in missing THEN "askTime"
  ELSE IF "serviceName" \in missing THEN "askService"
  ELSE IF "customerName" \in missing THEN "askName"
  ELSE IF "customerPhone" \in missing THEN "askPhone"
  ELSE IF "customerEmail" \in missing THEN "askEmail"
  ELSE "askWhat"

\* lines 393-422: the prompt chosen for a non-empty missing set
missingPrompt(missing) ==
  IF "serviceName" \in missing THEN "askService"
  ELSE IF "date" \in missing /\ "time" \in missing THEN "askDateTime"
  ELSE IF "date" \in missing THEN "askDate"
  ELSE IF "time" \in missing THEN "askTime"
  ELSE IF "customerName" \in missing THEN "askName"
  ELSE IF "customerPhone" \in missing THEN "askPhone"
  ELSE IF "customerEmail" \in missing THEN "askEmail"
  ELSE "askWhat"

\* the branch taken when the commit is attempted unless confirmed is false
turnOutcome_CommitUnlessFalse(draft, avail) ==
  IF avail THEN "availability"
  ELSE IF missingFields(draft) # {} THEN "ask"
  ELSE IF draft.confirmed # "false" THEN "commit"
  ELSE "summary"

\* the branch taken when the commit is tried before the availability
\* question is looked at
turnOutcome_CommitBeforeAvailability(draft, avail) ==
  IF missingFields(draft) = {} /\ draft.confirmed = "true" THEN "commit"
  ELSE IF avail THEN "availability"
  ELSE IF missingFields(draft) # {} THEN "ask"
  ELSE "summary"

\* lines 346, 393 and 425: which branch a turn takes once its draft is merged
turnOutcome(draft, avail) ==
  IF avail THEN "availability"
  ELSE IF missingFields(draft) # {} THEN "ask"
  ELSE IF draft.confirmed = "true" THEN "commit"
  ELSE "summary"

\* ------------------------------------------------------------------------
\* route.ts validateAndSave, checkAvailability
\* ------------------------------------------------------------------------
BlockingStatus == {"PENDING", "CONFIRMED"}

\* findOverlap counting a reservation that only touches the candidate
findOverlap_TouchingConflicts(store, start, end) ==
  \E i \in 1..Len(store) :
    /\ store[i].status \in BlockingStatus
    /\ store[i].startAt <= end
    /\ store[i].endAt >= start

\* findOverlap looking at CONFIRMED reservations only
findOverlap_ConfirmedOnly(store, start, end) ==
  \E i \in 1..Len(store) :
    /\ store[i].status = "CONFIRMED"
    /\ store[i].startAt < end
    /\ store[i].endAt > start

\* findOverlap comparing the booking's end with the candidate's end
findOverlap_EndWithEnd(store, start, end) ==
  \E i \in 1..Len(store) :
    /\ store[i].status \in BlockingStatus
    /\ store[i].startAt < end
    /\ store[i].endAt > end

\* prisma.booking.findFirst of lines 205-211 and 253-259
findOverlap(store, start, end) ==
  \E i \in 1..Len(store) :
    /\ store[i].status \in BlockingStatus
    /\ store[i].startAt < end
    /\ store[i].endAt > start

Fail(reason) == [ok |-> FALSE, reason |-> reason, start |-> 0, end |-> 0]

\* validateAndSave with the business hours tested before the lead time
validateAndSave_HoursBeforeLead(draft, now, store) ==
  IF ~(draft.serviceName # "" /\ draft.date # "" /\ draft.time # ""
       /\ draft.customerName # "" /\ draft.customerPhone # ""
       /\ draft.customerEmail # "")
    THEN Fail("Missing required booking info.")
  ELSE LET mins == minutesForService(draft.serviceName)
           start == parseStart(draft.date, draft.time)
           end == start + mins + BUFFER_MIN
       IN  IF mins = 0 THEN Fail("That service is not supported.")
           ELSE IF start = Invalid THEN Fail("Invalid date/time format.")
           ELSE IF start <= now
             THEN Fail("That time is in the past. Pick a future time.")
           ELSE IF ~isWithinBusinessHours(start, end).ok
             THEN Fail(isWithinBusinessHours(start, end).reason)
           ELSE IF ~enforceSameDayLead(start, now).ok
             THEN Fail(enforceSameDayLead(start, now).reason)
           ELSE IF findOverlap(store, start, end)
             THEN Fail("That time is already taken. Please choose another time.")
           ELSE [ok |-> TRUE, reason |-> "", start |-> start, end |-> end]

\* validateAndSave with the end computed without the buffer
validateAndSave_NoBuffer(draft, now, store) ==
  IF ~(draft.serviceName # "" /\ draft.date # "" /\ draft.time # ""
       /\ draft.customerName # "" /\ draft.customerPhone # ""
       /\ draft.customerEmail # "")
    THEN Fail("Missing required booking info.")
  ELSE LET mins == minutesForService(draft.serviceName)
           start == parseStart(draft.date, draft.time)
           end == start + mins
       IN  IF mins = 0 THEN Fail("That service is not supported.")
           ELSE IF start = Invalid THEN Fail("Invalid date/time format.")
           ELSE IF start <= now
             THEN Fail("That time is in the past. Pick a future time.")
           ELSE IF ~enforceSameDayLead(start, now).ok
             THEN Fail(enforceSameDayLead(start, now).reason)
           ELSE IF ~isWithinBusinessHours(start, end).ok
             THEN Fail(isWithinBusinessHours(start, end).reason)
           ELSE IF findOverlap(store, start, end)
             THEN Fail("That time is already taken. Please choose another time.")
           ELSE [ok |-> TRUE, reason |-> "", start |-> start, end |-> end]

\* lines 221-263: the checks of validateAndSave up to the conflict query;
\* on ok the caller goes on to prisma.booking.create with start and end
validateAndSave(draft, now, store) ==
  IF draft.serviceName = "" \/ draft.date = "" \/ draft.time = ""
       \/ draft.customerName = "" \/ draft.customerPhone = ""
       \/ draft.customerEmail = ""
    THEN Fail("Missing required booking info.")
  ELSE LET mins == minutesForService(draft.serviceName)
           start == parseStart(draft.date, draft.time)
           end == start + mins + BUFFER_MIN
       IN  IF mins = 0 THEN Fail("That service is not supported.")
           ELSE IF start = Invalid THEN Fail("Invalid date/time format.")
           ELSE IF start <= now
             THEN Fail("That time is in the past. Pick a future time.")
           ELSE IF ~enforceSameDayLead(start, now).ok
             THEN Fail(enforceSameDayLead(start, now).reason)
           ELSE IF ~isWithinBusinessHours(start, end).ok
             THEN Fail(isWithinBusinessHours(start, end).reason)
           ELSE IF findOverlap(store, start, end)
             THEN Fail("That time is already taken. Please choose another time.")
           ELSE [ok |-> TRUE, reason |-> "", start |-> start, end |-> end]

\* checkAvailability without the lead-time test of lines 199-200
checkAvailability_NoLeadTest(draft, now, store) ==
  IF draft.date = "" \/ draft.time = "" THEN Fail("missing-date-time")
  ELSE LET duration == IF draft.serviceName # ""
                         THEN minutesForService(draft.serviceName) ELSE 30
           start == parseStart(draft.date, draft.time)
           end == start + duration + BUFFER_MIN
       IN  IF duration = 0 THEN Fail("unsupported-service")
           ELSE IF start = Invalid THEN Fail("invalid-date-time")
           ELSE IF start <= now THEN Fail("past")
           ELSE IF ~isWithinBusinessHours(start, end).ok
             THEN Fail(isWithinBusinessHours(start, end).reason)
           ELSE IF findOverlap(store, start, end) THEN Fail("taken")
           ELSE [ok |-> TRUE, reason |-> "", start |-> start, end |-> end]

\* lines 183-219
checkAvailability(draft, now, store) ==
  IF draft.date = "" \/ draft.time = "" THEN Fail("missing-date-time")
  ELSE LET duration == IF draft.serviceName # ""
                         THEN minutesForService(draft.serviceName) ELSE 30
           start == parseStart(draft.date, draft.time)
           end == start + duration + BUFFER_MIN
       IN  IF duration = 0 THEN Fail("unsupported-service")
           ELSE IF start = Invalid THEN Fail("invalid-date-time")
           ELSE IF start <= now THEN Fail("past")
           ELSE IF ~enforceSameDayLead(start, now).ok
             THEN Fail(enforceSameDayLead(start, now).reason)
           ELSE IF ~isWithinBusinessHours(start, end).ok
             THEN Fail(isWithinBusinessHours(start, end).reason)
           ELSE IF findOverlap(store, start, end) THEN Fail("taken")
           ELSE [ok |-> TRUE, reason |-> "", start |-> start, end |-> end]

\* the case-insensitive pattern tests made on a failure reason
TestOpensAt(reason) == reason = "Too early. Opens at"
TestClosesAt(reason) == reason = "Too late. Closes at"
TestClosedThatDay(reason) == reason = "Shop is closed that day."
TestAlreadyTaken(reason) ==
  reason = "That time is already taken. Please choose another time."
TestPast(reason) == reason = "That time is in the past. Pick a future time."

\* lines 350-370: the reply of an availability question
availabilityReply(a) ==
  IF a.ok THEN "availYes"
  ELSE IF a.reason = "missing-date-time" THEN "availMissing"
  ELSE IF a.reason = "invalid-date-time" THEN "availInvalid"
  ELSE IF a.reason = "past" THEN "availPast"
  ELSE IF a.reason = "taken" THEN "availTaken"
  ELSE IF TestOpensAt(a.reason) \/ TestClosesAt(a.reason)
          \/ TestClosedThatDay(a.reason) THEN "availNotOpen"
  ELSE "availCannot"

\* lines 430-450: the draft persisted after a failed commit
failureDraft(draft, reason) ==
  LET updatedDraft == [draft EXCEPT !.confirmed = "false"]
  IN  IF TestOpensAt(reason) \/ TestClosesAt(reason)
        THEN [updatedDraft EXCEPT !.time = ""]
      ELSE IF TestClosedThatDay(reason)
        THEN [updatedDraft EXCEPT !.date = "", !.time = ""]
      ELSE IF TestAlreadyTaken(reason)
        THEN [updatedDraft EXCEPT !.time = ""]
      ELSE IF TestPast(reason)
        THEN [updatedDraft EXCEPT !.date = "", !.time = ""]
      ELSE [updatedDraft EXCEPT !.date = "", !.time = ""]

\* lines 435-450: the reply after a failed commit
failureReply(reason) ==
  IF TestOpensAt(reason) \/ TestClosesAt(reason) THEN "sorryHours"
  ELSE IF TestClosedThatDay(reason) THEN "sorryClosed"
  ELSE IF TestAlreadyTaken(reason) THEN "sorryTaken"
  ELSE IF TestPast(reason) THEN "sorryPast"
  ELSE "sorryOther"

\* ------------------------------------------------------------------------
\* Inputs of a turn
\* ------------------------------------------------------------------------
PlainMsg ==
  [greet |-> FALSE, asksInfo |-> FALSE, asksAvail |-> FALSE,
   tomorrow |-> FALSE, today |-> FALSE, weekday |-> "", noon |-> FALSE,
   midnight |-> FALSE, ap |-> "", h |-> 0, m |-> 0,
   confirmKw |-> FALSE, cancelKw |-> FALSE]

\* msg "tomorrow at 1pm"
TomorrowAt1pm == [PlainMsg EXCEPT !.tomorrow = TRUE, !.ap = "pm", !.h = 1]

Silent == [kind |-> "json", fields |-> EmptyDraft]
Json(fields) == [kind |-> "json", fields |-> fields]

\* everything but the confirmation: a haircut on Monday at 13:00
BaseHaircut ==
  [serviceName |-> "haircut", date |-> "2026-02-09", time |-> "13:00",
   customerName |-> "Ana Diaz", customerPhone |-> "555-0100",
   customerEmail |-> "ana@example.com", confirmed |-> "undefined"]

\* the same with the confirmation
FullHaircut == [BaseHaircut EXCEPT !.confirmed = "true"]

\* the turns the model submits: the text and what the language model
\* answered for it (the clock starts on Saturday 2026-02-07 at 12:00)
TurnInputs ==
  { [msg |-> PlainMsg, llm |-> Json(BaseHaircut)],
    [msg |-> PlainMsg, llm |-> Json(FullHaircut)],
    \* Monday 12:30 to 13:20, overlaps the haircut
    [msg |-> PlainMsg,
     llm |-> Json([FullHaircut EXCEPT !.serviceName = "Head Shave",
                                      !.time = "12:30"])],
    \* Sunday: closed
    [msg |-> PlainMsg, llm |-> Json([FullHaircut EXCEPT !.date = "2026-02-08"])],
    \* Saturday 12:30: less than 60 minutes ahead, or past
    [msg |-> PlainMsg,
     llm |-> Json([FullHaircut EXCEPT !.date = "2026-02-07", !.time = "12:30"])],
    \* Monday 08:30: before 09:00
    [msg |-> PlainMsg, llm |-> Json([FullHaircut EXCEPT !.time = "08:30"])],
    \* everything but one field
    [msg |-> PlainMsg, llm |-> Json([BaseHaircut EXCEPT !.customerEmail = ""])],
    \* one field
    [msg |-> PlainMsg, llm |-> Json([EmptyDraft EXCEPT !.serviceName = " Fresh Haircut "])],
    [msg |-> [PlainMsg EXCEPT !.confirmKw = TRUE], llm |-> Silent],
    [msg |-> [PlainMsg EXCEPT !.cancelKw = TRUE], llm |-> Silent],
    [msg |-> [PlainMsg EXCEPT !.confirmKw = TRUE],
     llm |-> [kind |-> "badjson", fields |-> EmptyDraft]],
    [msg |-> TomorrowAt1pm, llm |-> [kind |-> "nojson", fields |-> EmptyDraft]],
    [msg |-> [PlainMsg EXCEPT !.greet = TRUE], llm |-> Silent],
    [msg |-> [PlainMsg EXCEPT !.asksAvail = TRUE], llm |-> Silent] }

\* ------------------------------------------------------------------------
\* State
\* ------------------------------------------------------------------------
Requests == {1, 2}
Convs == 1..MaxConv

\* the clock at the start, a Saturday at 12:00, and the steps it advances by
StartNow == 12 * 60
TickSteps == {45}

\* Prisma.DbNull in Conversation.bookingDraft
DbNull == [null |-> TRUE]

IdleReq ==
  [pc |-> "idle", conv |-> 0, draft |-> EmptyDraft, avail |-> FALSE,
   start |-> 0, end |-> 0]

VARIABLES
  now,          \* DateTime.now() in the shop's zone
  bookings,     \* table Booking, in creation order
  status,       \* Conversation.status per conversation id, "NONE" = no row
  bookingDraft, \* Conversation.bookingDraft per conversation id
  req,          \* the POST requests in flight
  out,          \* the reply the last step returned, NoReply if it returned none
  committed,    \* history: bookings created by turns of each conversation
  turns,        \* history: turns submitted so far
  probe,        \* one call of a function on its own: arguments and result
  messages,     \* table Message: the roles of the rows of each conversation, in creation order
  errlog        \* what the last step wrote with console.error

vars ==
  <<now, bookings, status, bookingDraft, req, out, committed, turns, probe,
    messages, errlog>>

NoProbe == [fn |-> "none"]

\* no response was sent by the step
NoReply == [conv |-> 0, reply |-> ""]

Init ==
  /\ now = StartNow
  /\ bookings = <<>>
  /\ status = [c \in Convs |-> "NONE"]
  /\ bookingDraft = [c \in Convs |-> DbNull]
  /\ req = [r \in Requests |-> IdleReq]
  /\ out = NoReply
  /\ committed = [c \in Convs |-> 0]
  /\ turns = 0
  /\ messages = [c \in Convs |-> <<>>]
  /\ errlog = {}
  /\ probe = NoProbe

\* conversation.bookingDraft ?? {}
draftOrEmpty(bd) == IF bd = DbNull THEN EmptyDraft ELSE bd

InFlight == {r \in Requests : req[r].pc # "idle"}

\* the turn whose greeting and information answers discard the stored draft
BeginTurn_InfoDiscardsDraft(r, c, msg, llm) ==
  /\ req[r].pc = "idle"
  /\ \A q \in Requests : q < r => req[q].pc # "idle"
  /\ turns < MaxTurns
  /\ turns' = turns + 1
  /\ \/ status[c] # "NONE"
     \/ status[c] = "NONE" /\ \A k \in Convs : k < c => status[k] # "NONE"
  /\ status' = IF status[c] = "NONE" THEN [status EXCEPT ![c] = "OPEN"]
               ELSE status
  /\ IF msg.greet \/ msg.asksInfo
       THEN /\ out' = [conv |-> c,
                       reply |-> IF msg.greet THEN "greeting" ELSE "info"]
            /\ req' = req
            /\ messages' = [messages EXCEPT ![c] = @ \o <<"USER", "AGENT">>]
            /\ bookingDraft' = [bookingDraft EXCEPT ![c] = DbNull]
       ELSE /\ LET prevDraft == IF bookingDraft[c] = DbNull THEN EmptyDraft
                                ELSE bookingDraft[c]
                   e == extractBookingInfo(msg, prevDraft, llm, now)
                   draft == [e EXCEPT !.serviceName =
                                         normalizeServiceName(e.serviceName)]
               IN  req' = [req EXCEPT ![r] =
                             [pc |-> "persist", conv |-> c, draft |-> draft,
                              avail |-> msg.asksAvail, start |-> 0, end |-> 0]]
            /\ out' = [conv |-> 0, reply |-> ""]
            /\ messages' = [messages EXCEPT ![c] = Append(@, "USER")]
            /\ bookingDraft' = bookingDraft
  /\ errlog' = {}
  /\ UNCHANGED <<now, bookings, committed, probe>>

\* POST lines 281-344: the conversation is read (or created when the body
\* has no conversationId), the greeting and information questions are
\* answered, otherwise the draft is extracted from the draft just read
BeginTurn(r, c, msg, llm) ==
  /\ req[r].pc = "idle"
  /\ \A q \in Requests : q < r => req[q].pc # "idle"
  /\ turns < MaxTurns
  /\ turns' = turns + 1
  /\ \/ status[c] # "NONE"
     \/ status[c] = "NONE" /\ \A k \in Convs : k < c => status[k] # "NONE"
  /\ status' = IF status[c] = "NONE" THEN [status EXCEPT ![c] = "OPEN"]
               ELSE status
  /\ IF msg.greet \/ msg.asksInfo
       THEN /\ out' = [conv |-> c,
                       reply |-> IF msg.greet THEN "greeting" ELSE "info"]
            /\ req' = req
            /\ messages' = [messages EXCEPT ![c] = @ \o <<"USER", "AGENT">>]
       ELSE /\ LET prevDraft == draftOrEmpty(bookingDraft[c])
                   e == extractBookingInfo(msg, prevDraft, llm, now)
                   draft == [e EXCEPT !.serviceName =
                                         normalizeServiceName(e.serviceName)]
               IN  req' = [req EXCEPT ![r] =
                             [IdleReq EXCEPT !.pc = "persist", !.conv = c,
                                             !.draft = draft,
                                             !.avail = msg.asksAvail]]
            /\ out' = NoReply
            /\ messages' = [messages EXCEPT ![c] = Append(@, "USER")]
  /\ errlog' = {}
  /\ UNCHANGED <<now, bookings, bookingDraft, committed, probe>>

\* the reply that is returned without being logged
Respond_NoAgentMessage(r, reply) ==
  /\ out' = [conv |-> req[r].conv, reply |-> reply]
  /\ messages' = messages
  /\ req' = [req EXCEPT ![r] = [pc |-> "idle", conv |-> 0, draft |-> EmptyDraft,
                                avail |-> FALSE, start |-> 0, end |-> 0]]

\* lines 498-502: the reply is logged as an AGENT message and returned
Respond(r, reply) ==
  /\ out' = [conv |-> req[r].conv, reply |-> reply]
  /\ messages' = [messages EXCEPT ![req[r].conv] = Append(@, "AGENT")]
  /\ req' = [req EXCEPT ![r] = IdleReq]

\* POST lines 346-422 and 493-496: an availability question is answered and
\* the draft persisted; otherwise the draft is persisted and the turn asks
\* for what is missing, shows the summary, or goes on to the commit
PersistDraft(r) ==
  LET c == req[r].conv
      draft == req[r].draft
      missing == missingFields(draft)
  IN  /\ req[r].pc = "persist"
      /\ bookingDraft' = [bookingDraft EXCEPT ![c] = draft]
      /\ CASE turnOutcome(draft, req[r].avail) = "availability" ->
                Respond(r, availabilityReply(checkAvailability(draft, now, bookings)))
           [] turnOutcome(draft, req[r].avail) = "ask" ->
                Respond(r, missingPrompt(missing))
           [] turnOutcome(draft, req[r].avail) = "summary" ->
                Respond(r, "summary")
           [] turnOutcome(draft, req[r].avail) = "commit" ->
                /\ req' = [req EXCEPT ![r].pc = "validate"]
                /\ out' = NoReply
                /\ UNCHANGED messages
      /\ errlog' = {}
      /\ UNCHANGED <<now, bookings, status, committed, turns, probe>>

\* validateAndSave lines 221-263 and POST lines 428-454: the checks and the
\* conflict query; a failure resets the draft and ends the turn
Validate(r) ==
  LET c == req[r].conv
      draft == req[r].draft
      result == validateAndSave(draft, now, bookings)
  IN  /\ req[r].pc = "validate"
      /\ IF result.ok
           THEN /\ req' = [req EXCEPT ![r].pc = "create",
                                      ![r].start = result.start,
                                      ![r].end = result.end]
                /\ out' = NoReply
                /\ UNCHANGED <<bookingDraft, messages>>
           ELSE /\ bookingDraft' =
                     [bookingDraft EXCEPT ![c] = failureDraft(draft, result.reason)]
                /\ Respond(r, failureReply(result.reason))
      /\ errlog' = {}
      /\ UNCHANGED <<now, bookings, status, committed, turns, probe>>

\* validateAndSave lines 265-278: prisma.booking.create
CreateBooking(r) ==
  /\ req[r].pc = "create"
  /\ bookings' = Append(bookings,
                        [status |-> "CONFIRMED",
                         serviceName |-> req[r].draft.serviceName,
                         startAt |-> req[r].start, endAt |-> req[r].end])
  /\ committed' = [committed EXCEPT ![req[r].conv] = @ + 1]
  /\ req' = [req EXCEPT ![r].pc = "close"]
  /\ out' = NoReply
  /\ errlog' = {}
  /\ UNCHANGED <<now, status, bookingDraft, turns, probe, messages>>

\* the notifications of a commit: sendBookingConfirmationEmail (lines
\* 460-473) and sendBookingConfirmationSms (lines 475-487)
Notifications == {"Email send failed:", "SMS send failed:"}

\* the close that leaves the draft in place
CloseConversation_KeepDraft(r) ==
  /\ req[r].pc = "close"
  /\ status' = [status EXCEPT ![req[r].conv] = "CLOSED"]
  /\ out' = [conv |-> req[r].conv, reply |-> "booked"]
  /\ messages' = [messages EXCEPT ![req[r].conv] = Append(@, "AGENT")]
  /\ req' = [req EXCEPT ![r] = [pc |-> "idle", conv |-> 0, draft |-> EmptyDraft,
                                avail |-> FALSE, start |-> 0, end |-> 0]]
  /\ \E failed \in SUBSET Notifications : errlog' = failed
  /\ UNCHANGED <<now, bookings, bookingDraft, committed, turns, probe>>

\* the close with the notification failures left uncaught: the handler's
\* outer catch answers 500 and the conversation is not updated
CloseConversation_ThrowOnFailedNotification(r) ==
  /\ req[r].pc = "close"
  /\ \E failed \in SUBSET Notifications :
       /\ errlog' = failed
       /\ IF failed = {}
            THEN /\ status' = [status EXCEPT ![req[r].conv] = "CLOSED"]
                 /\ bookingDraft' = [bookingDraft EXCEPT ![req[r].conv] = DbNull]
                 /\ Respond(r, "booked")
            ELSE /\ out' = [conv |-> req[r].conv, reply |-> "error500"]
                 /\ req' = [req EXCEPT ![r] = IdleReq]
                 /\ UNCHANGED <<status, bookingDraft, messages>>
  /\ UNCHANGED <<now, bookings, committed, turns, probe>>

\* the close that discards the draft of every conversation
CloseConversation_ClearsEveryDraft(r) ==
  /\ req[r].pc = "close"
  /\ status' = [status EXCEPT ![req[r].conv] = "CLOSED"]
  /\ bookingDraft' = [c \in Convs |-> DbNull]
  /\ out' = [conv |-> req[r].conv, reply |-> "booked"]
  /\ messages' = [messages EXCEPT ![req[r].conv] = Append(@, "AGENT")]
  /\ req' = [req EXCEPT ![r] = [pc |-> "idle", conv |-> 0, draft |-> EmptyDraft,
                                avail |-> FALSE, start |-> 0, end |-> 0]]
  /\ \E failed \in SUBSET Notifications : errlog' = failed
  /\ UNCHANGED <<now, bookings, committed, turns, probe>>

\* POST lines 455-502: the notifications are sent, each failure is caught
\* and logged, the conversation is closed and its draft set to DbNull
CloseConversation(r) ==
  /\ req[r].pc = "close"
  /\ status' = [status EXCEPT ![req[r].conv] = "CLOSED"]
  /\ bookingDraft' = [bookingDraft EXCEPT ![req[r].conv] = DbNull]
  /\ Respond(r, "booked")
  /\ \E failed \in SUBSET Notifications : errlog' = failed
  /\ UNCHANGED <<now, bookings, committed, turns, probe>>

\* the request bodies POST answers with 400 (lines 283-286): a missing body
\* or one that is not JSON (req.json() rejects, body is null), an object
\* without message, a message that is no string
BadBodies == {"notJson", "noMessage", "numberMessage"}

\* the rejection that logs the message first
RejectBody_LogsMessage(body) ==
  /\ body \in BadBodies
  /\ out' = [conv |-> 0, reply |-> "error400"]
  /\ errlog' = {}
  /\ \E c \in Convs : messages' = [messages EXCEPT ![c] = Append(@, "USER")]
  /\ UNCHANGED <<now, bookings, status, bookingDraft, req, committed, turns,
                 probe>>

\* POST lines 283-286
RejectBody(body) ==
  /\ body \in BadBodies
  /\ out' = [conv |-> 0, reply |-> "error400"]
  /\ errlog' = {}
  /\ UNCHANGED <<now, bookings, status, bookingDraft, req, committed, turns,
                 probe, messages>>

\* POST lines 288-293: the body names a conversation id with no row,
\* findUnique returns null
RejectUnknownConversation(c) ==
  /\ status[c] = "NONE"
  /\ out' = [conv |-> 0, reply |-> "error404"]
  /\ errlog' = {}
  /\ UNCHANGED <<now, bookings, status, bookingDraft, req, committed, turns,
                 probe, messages>>

\* the texts of the turns during which the language-model call fails: a
\* booking text and a greeting, which returns before the call
LlmFailTexts == {TomorrowAt1pm, [PlainMsg EXCEPT !.greet = TRUE]}

\* extractBookingInfo awaits client.chat.completions.create outside any try
\* block (ai.ts lines 76-83): when the call throws or times out, the
\* exception leaves extractBookingInfo, POST's outer catch (lines 503-507)
\* logs it and answers 500. By then the conversation row (lines 288-293)
\* and the USER message (lines 295-297) are written; nothing after line 342
\* runs. Greetings and information questions return before the call
LlmCallFails(c, msg) ==
  /\ ~msg.greet /\ ~msg.asksInfo
  /\ \A q \in Requests : req[q].conv # c
  /\ turns < MaxTurns
  /\ turns' = turns + 1
  /\ \/ status[c] # "NONE"
     \/ status[c] = "NONE" /\ \A k \in Convs : k < c => status[k] # "NONE"
  /\ status' = IF status[c] = "NONE" THEN [status EXCEPT ![c] = "OPEN"]
               ELSE status
  /\ messages' = [messages EXCEPT ![c] = Append(@, "USER")]
  /\ out' = [conv |-> c, reply |-> "error500"]
  /\ errlog' = {"Chat API error:"}
  /\ UNCHANGED <<now, bookings, bookingDraft, req, committed, probe>>

\* time passes
Tick ==
  /\ \E k \in TickSteps :
       /\ now + k <= StartNow + MaxTicks * k
       /\ now' = now + k
  /\ out' = NoReply
  /\ errlog' = {}
  /\ UNCHANGED <<bookings, status, bookingDraft, req, committed, turns, probe,
               messages>>

Next ==
  \/ \E r \in Requests, c \in Convs, t \in TurnInputs :
       BeginTurn(r, c, t.msg, t.llm)
  \/ \E r \in Requests : PersistDraft(r)
  \/ \E r \in Requests : Validate(r)
  \/ \E r \in Requests : CreateBooking(r)
  \/ \E r \in Requests : CloseConversation(r)
  \/ Tick

Spec == Init /\ [][Next]_vars

\* The same program when the turns of one conversation are submitted one
\* after the other: a turn begins only when no turn of its conversation is
\* in flight
BeginTurnSeq(r, c, msg, llm) ==
  /\ \A q \in Requests : req[q].conv # c
  /\ BeginTurn(r, c, msg, llm)

NextSeq ==
  \/ \E r \in Requests, c \in Convs, t \in TurnInputs :
       BeginTurnSeq(r, c, t.msg, t.llm)
  \/ \E r \in Requests : PersistDraft(r)
  \/ \E r \in Requests : Validate(r)
  \/ \E r \in Requests : CreateBooking(r)
  \/ \E r \in Requests : CloseConversation(r)
  \/ Tick

SpecSeq == Init /\ [][NextSeq]_vars

\* The same with the requests POST rejects
NextInput ==
  \/ \E r \in Requests, c \in Convs, t \in TurnInputs :
       BeginTurnSeq(r, c, t.msg, t.llm)
  \/ \E r \in Requests : PersistDraft(r)
  \/ \E r \in Requests : Validate(r)
  \/ \E r \in Requests : CreateBooking(r)
  \/ \E r \in Requests : CloseConversation(r)
  \/ Tick
  \/ \E body \in BadBodies : RejectBody(body)
  \/ \E c \in Convs : RejectUnknownConversation(c)

SpecInput == Init /\ [][NextInput]_vars

\* greetings and information questions whose text holds more: a
\* confirmation keyword, a date and a time, an availability question; the
\* language model, if it were called, would report a complete confirmed
\* draft
InfoInputs ==
  { [msg |-> [PlainMsg EXCEPT !.greet = TRUE, !.confirmKw = TRUE],
     llm |-> Json(FullHaircut)],
    [msg |-> [TomorrowAt1pm EXCEPT !.asksInfo = TRUE, !.confirmKw = TRUE,
                                   !.asksAvail = TRUE],
     llm |-> Json(FullHaircut)] }

\* the turns of one conversation one after the other, with those greetings
\* and information questions among the turns
NextInfo ==
  \/ \E r \in Requests, c \in Convs, t \in TurnInputs \cup InfoInputs :
       BeginTurnSeq(r, c, t.msg, t.llm)
  \/ \E r \in Requests : PersistDraft(r)
  \/ \E r \in Requests : Validate(r)
  \/ \E r \in Requests : CreateBooking(r)
  \/ \E r \in Requests : CloseConversation(r)
  \/ Tick

SpecInfo == Init /\ [][NextInfo]_vars

\* the turns of one conversation one after the other, with the turns during
\* which the language-model call fails
NextLlmFail ==
  \/ \E r \in Requests, c \in Convs, t \in TurnInputs :
       BeginTurnSeq(r, c, t.msg, t.llm)
  \/ \E r \in Requests : PersistDraft(r)
  \/ \E r \in Requests : Validate(r)
  \/ \E r \in Requests : CreateBooking(r)
  \/ \E r \in Requests : CloseConversation(r)
  \/ Tick
  \/ \E c \in Convs, msg \in LlmFailTexts : LlmCallFails(c, msg)

SpecLlmFail == Init /\ [][NextLlmFail]_vars

\* ------------------------------------------------------------------------
\* validateAndSave called on its own, for any draft, clock and store
\* ------------------------------------------------------------------------
ProbeDrafts ==
  {[serviceName |-> s, date |-> d, time |-> t, customerName |-> n,
    customerPhone |-> "555-0100", customerEmail |-> e, confirmed |-> "true"] :
     s \in {"", "Massage", "Haircut (Standard)", "Head Shave"},
     d \in {"", "tuesday", "2026-02-07", "2026-02-08", "2026-02-09"},
     t \in {"", "2pm", "08:30", "12:30", "13:00", "15:30"},
     n \in {"", "Ana Diaz"}, e \in {"", "ana@example.com"}}

\* Saturday at 08:00, 12:00 and 14:40
ProbeNows == {8 * 60, StartNow, 14 * 60 + 40}

Booked(st, service, date, time) ==
  [status |-> st, serviceName |-> service,
   startAt |-> parseStart(date, time),
   endAt |-> parseStart(date, time) + SERVICES[service] + BUFFER_MIN]

ProbeStores ==
  { <<>>,
    <<Booked("CONFIRMED", "Haircut (Standard)", "2026-02-09", "12:30")>>,
    <<Booked("PENDING", "Head Shave", "2026-02-07", "15:30")>>,
    <<Booked("CANCELLED", "Haircut (Standard)", "2026-02-09", "13:00")>> }

InitValidate ==
  /\ now = StartNow
  /\ bookings = <<>>
  /\ status = [c \in Convs |-> "NONE"]
  /\ bookingDraft = [c \in Convs |-> DbNull]
  /\ req = [r \in Requests |-> IdleReq]
  /\ out = NoReply
  /\ committed = [c \in Convs |-> 0]
  /\ turns = 0
  /\ messages = [c \in Convs |-> <<>>]
  /\ errlog = {}
  /\ probe \in {[fn |-> "validateAndSave", draft |-> d, now |-> n, store |-> st,
                  done |-> FALSE, result |-> Fail("")] :
                   d \in ProbeDrafts, n \in ProbeNows, st \in ProbeStores}

ApplyValidate ==
  /\ probe.fn = "validateAndSave"
  /\ ~probe.done
  /\ probe' = [probe EXCEPT !.done = TRUE,
                            !.result = validateAndSave(probe.draft, probe.now,
                                                       probe.store)]
  /\ UNCHANGED <<now, bookings, status, bookingDraft, req, out, committed, turns,
               messages, errlog>>

NextValidate == ApplyValidate

SpecValidate == InitValidate /\ [][NextValidate]_vars

\* ------------------------------------------------------------------------
\* Properties
\* ------------------------------------------------------------------------
Overlap(a, b) == a.startAt < b.endAt /\ b.startAt < a.endAt

AllRequiredSet(d) ==
  /\ d.serviceName # "" /\ d.date # "" /\ d.time # ""
  /\ d.customerName # "" /\ d.customerPhone # "" /\ d.customerEmail # ""

\* C1: no two bookings with status PENDING or CONFIRMED have overlapping
\* half-open intervals [startAt, endAt), whatever the interleaving of the
\* turns of different conversations
C1_NoDoubleBooking ==
  \A i, j \in 1..Len(bookings) :
    (i < j /\ bookings[i].status \in BlockingStatus
           /\ bookings[j].status \in BlockingStatus)
      => ~Overlap(bookings[i], bookings[j])

\* C4: every booking in the store names a service of the catalog and ends
\* duration(serviceName) + 5 minutes after it starts
C4_EndIsStartPlusDurationPlusBuffer ==
  \A i \in 1..Len(bookings) :
    /\ bookings[i].serviceName \in DOMAIN SERVICES
    /\ bookings[i].endAt
         = bookings[i].startAt + SERVICES[bookings[i].serviceName] + 5

\* a 30-minute haircut is in the store and occupies 35 minutes
C4_Witness ==
  \E i \in 1..Len(bookings) :
    /\ bookings[i].serviceName = "Haircut (Standard)"
    /\ bookings[i].endAt - bookings[i].startAt = 35

\* the checks of a commit, each stated on its own
ChecksPass(d, n, store) ==
  /\ AllRequiredSet(d)
  /\ d.serviceName \in DOMAIN SERVICES
  /\ parseStart(d.date, d.time) # Invalid
  /\ LET start == parseStart(d.date, d.time)
         end == start + SERVICES[d.serviceName] + BUFFER_MIN
     IN  /\ start > n
         /\ enforceSameDayLead(start, n).ok
         /\ isWithinBusinessHours(start, end).ok
         /\ \A i \in 1..Len(store) :
              store[i].status \in BlockingStatus
                => ~Overlap(store[i], [startAt |-> start, endAt |-> end])

\* C2: validateAndSave goes on to create a booking only when every check
\* passes on its draft, the clock and the store it queried; a booking enters
\* the store only by that create, with status CONFIRMED and the draft's
\* service, start and end; a failing validateAndSave leaves the store as is
C2_CreateOnlyWhenAllChecksPass ==
  [][/\ \A r \in Requests :
          (req[r].pc = "validate" /\ req'[r].pc = "create")
            => ChecksPass(req[r].draft, now, bookings)
     /\ \A r \in Requests :
          (req[r].pc = "validate" /\ req'[r].pc = "idle")
            => bookings' = bookings
     /\ \A r \in Requests :
          req'[r].pc = "create" => req[r].pc \in {"validate", "create"}
     /\ bookings' # bookings
          => \E r \in Requests :
               /\ req[r].pc = "create"
               /\ bookings' =
                    Append(bookings,
                           [status |-> "CONFIRMED",
                            serviceName |-> req[r].draft.serviceName,
                            startAt |-> parseStart(req[r].draft.date,
                                                   req[r].draft.time),
                            endAt |-> parseStart(req[r].draft.date,
                                                 req[r].draft.time)
                                      + SERVICES[req[r].draft.serviceName]
                                      + BUFFER_MIN])]_vars

\* one commit created a booking and a later one was refused on the conflict
C2_Witness == Len(bookings) = 1 /\ out.reply = "sorryTaken"

\* the rules of a commit in the order of the claim
RuleViolated(k, d, n, store) ==
  LET start == parseStart(d.date, d.time)
      end == start + minutesForService(d.serviceName) + BUFFER_MIN
  IN  CASE k = 1 -> ~AllRequiredSet(d)
        [] k = 2 -> d.serviceName \notin DOMAIN SERVICES
        [] k = 3 -> start = Invalid
        [] k = 4 -> start <= n
        [] k = 5 -> ~enforceSameDayLead(start, n).ok
        [] k = 6 -> ~isWithinBusinessHours(start, end).ok
        [] k = 7 -> \E i \in 1..Len(store) :
                      /\ store[i].status \in BlockingStatus
                      /\ Overlap(store[i], [startAt |-> start, endAt |-> end])

RuleReason(k, d, n) ==
  LET start == parseStart(d.date, d.time)
      end == start + minutesForService(d.serviceName) + BUFFER_MIN
  IN  CASE k = 1 -> "Missing required booking info."
        [] k = 2 -> "That service is not supported."
        [] k = 3 -> "Invalid date/time format."
        [] k = 4 -> "That time is in the past. Pick a future time."
        [] k = 5 -> enforceSameDayLead(start, n).reason
        [] k = 6 -> isWithinBusinessHours(start, end).reason
        [] k = 7 -> "That time is already taken. Please choose another time."

FirstViolated(d, n, store) ==
  CHOOSE k \in 1..7 :
    RuleViolated(k, d, n, store) /\ \A j \in 1..(k - 1) : ~RuleViolated(j, d, n, store)

\* C3: validateAndSave fails exactly when some rule is violated, and the
\* reason it reports is that of the violated rule that comes first in the
\* order required fields, service, date/time format, past, lead time,
\* business hours, conflict
C3_ReasonOfFirstViolatedRule ==
  (probe.fn = "validateAndSave" /\ probe.done)
    => IF \E k \in 1..7 : RuleViolated(k, probe.draft, probe.now, probe.store)
         THEN /\ ~probe.result.ok
              /\ probe.result.reason =
                   RuleReason(FirstViolated(probe.draft, probe.now, probe.store),
                              probe.draft, probe.now)
         ELSE probe.result.ok

\* a draft that violates the lead time, the business hours and the conflict
\* rule at once is refused for the lead time
C3_Witness ==
  /\ probe.fn = "validateAndSave" /\ probe.done
  /\ \A k \in 1..4 : ~RuleViolated(k, probe.draft, probe.now, probe.store)
  /\ \A k \in 5..7 : RuleViolated(k, probe.draft, probe.now, probe.store)
  /\ probe.result.reason = enforceSameDayLead(0, 0).reason

\* request r takes a step that ends its turn from the stage pc
Ends(r, pc) == req[r].pc = pc /\ req'[r].pc = "idle"

\* C5: once a conversation is CLOSED, no later step changes its status or
\* its draft or creates a booking for it
C5_ClosedIsTerminal ==
  [][\A c \in Convs :
       status[c] = "CLOSED"
         => /\ status'[c] = "CLOSED"
            /\ bookingDraft'[c] = bookingDraft[c]
            /\ committed'[c] = committed[c]]_vars

\* C6: the step that ends a turn whose commit succeeded leaves the
\* conversation CLOSED with its draft DbNull; a conversation that created a
\* booking is CLOSED or still in the turn that created it; and a
\* conversation is CLOSED only if one of its turns created a booking
C6_CommitClosesAndDiscards ==
  /\ [][\A r \in Requests :
          Ends(r, "close")
            => /\ status'[req[r].conv] = "CLOSED"
               /\ bookingDraft'[req[r].conv] = DbNull]_vars
  /\ [](\A c \in Convs :
          /\ status[c] = "CLOSED" => committed[c] >= 1
          /\ committed[c] >= 1
               => \/ status[c] = "CLOSED"
                  \/ \E r \in Requests : req[r].conv = c /\ req[r].pc = "close")

\* a conversation has committed, is CLOSED and has no draft
C6_Witness ==
  \E c \in Convs :
    status[c] = "CLOSED" /\ bookingDraft[c] = DbNull /\ committed[c] = 1

\* C7: the draft persisted by a failed commit is the draft of the turn with
\* confirmed unset and with time cleared after an hours violation or a
\* conflict, date and time cleared after a past time
C7_FailureClearsImplicatedFields ==
  [][\A r \in Requests :
       Ends(r, "validate")
         => LET d == req[r].draft
                k == FirstViolated(d, now, bookings)
                unset == [d EXCEPT !.confirmed = "undefined"]
            IN  /\ draftOrEmpty(bookingDraft'[req[r].conv]).confirmed = "undefined"
                /\ k \in {6, 7}
                     => bookingDraft'[req[r].conv] = [unset EXCEPT !.time = ""]
                /\ k = 4
                     => bookingDraft'[req[r].conv]
                          = [unset EXCEPT !.date = "", !.time = ""]]_vars

\* C8 as stated: a turn whose merged draft is complete and not confirmed
\* replies with the summary, creates no booking, leaves the status as it is
\* and persists the merged draft
C8_CompleteUnconfirmedGivesSummary ==
  [][\A r \in Requests :
       (Ends(r, "persist") /\ AllRequiredSet(req[r].draft)
          /\ req[r].draft.confirmed # "true")
         => /\ out' = [conv |-> req[r].conv, reply |-> "summary"]
            /\ bookings' = bookings
            /\ status' = status
            /\ bookingDraft'[req[r].conv] = req[r].draft]_vars

\* C8 amended: the same for a turn that is not an availability question;
\* such a turn never goes on to the commit
C8_CompleteUnconfirmedGivesSummaryUnlessAvailability ==
  [][\A r \in Requests :
       (req[r].pc = "persist" /\ req'[r].pc # "persist"
          /\ AllRequiredSet(req[r].draft)
          /\ req[r].draft.confirmed # "true" /\ ~req[r].avail)
         => /\ req'[r].pc = "idle"
            /\ out' = [conv |-> req[r].conv, reply |-> "summary"]
            /\ bookings' = bookings
            /\ status' = status
            /\ bookingDraft'[req[r].conv] = req[r].draft]_vars

\* the summary was the last reply, for an open conversation whose persisted
\* draft is complete and unconfirmed, and nothing is booked
C8_Witness ==
  /\ out.reply = "summary"
  /\ status[out.conv] = "OPEN"
  /\ bookingDraft[out.conv] # DbNull
  /\ AllRequiredSet(draftOrEmpty(bookingDraft[out.conv]))
  /\ draftOrEmpty(bookingDraft[out.conv]).confirmed = "undefined"
  /\ bookings = <<>>

\* the items a turn can ask for, highest priority first
PromptOrder ==
  <<"askService", "askDateTime", "askDate", "askTime", "askName", "askPhone",
    "askEmail">>

Lacks(d, prompt) ==
  CASE prompt = "askService" -> d.serviceName = ""
    [] prompt = "askDateTime" -> d.date = "" /\ d.time = ""
    [] prompt = "askDate" -> d.date = ""
    [] prompt = "askTime" -> d.time = ""
    [] prompt = "askName" -> d.customerName = ""
    [] prompt = "askPhone" -> d.customerPhone = ""
    [] prompt = "askEmail" -> d.customerEmail = ""

ExpectedPrompt(d) ==
  PromptOrder[CHOOSE i \in 1..7 :
                Lacks(d, PromptOrder[i]) /\ \A j \in 1..(i - 1) : ~Lacks(d, PromptOrder[j])]

\* C9 as stated: a turn whose merged draft is incomplete ends with one
\* reply, the prompt for the missing item of highest priority, and attempts
\* no commit
C9_IncompleteAsksHighestPriority ==
  [][\A r \in Requests :
       (req[r].pc = "persist" /\ req'[r].pc # "persist"
          /\ ~AllRequiredSet(req[r].draft))
         => /\ req'[r].pc = "idle"
            /\ out' = [conv |-> req[r].conv, reply |-> ExpectedPrompt(req[r].draft)]
            /\ bookings' = bookings]_vars

\* C9 amended: the same for a turn that is not an availability question
C9_IncompleteAsksHighestPriorityUnlessAvailability ==
  [][\A r \in Requests :
       (req[r].pc = "persist" /\ req'[r].pc # "persist"
          /\ ~AllRequiredSet(req[r].draft) /\ ~req[r].avail)
         => /\ req'[r].pc = "idle"
            /\ out' = [conv |-> req[r].conv, reply |-> ExpectedPrompt(req[r].draft)]
            /\ bookings' = bookings
            /\ status' = status]_vars

\* date and time were asked for together while the name, the phone and the
\* email are missing too
C9_Witness ==
  /\ out.reply = "askDateTime"
  /\ bookingDraft[out.conv] # DbNull
  /\ missingFields(draftOrEmpty(bookingDraft[out.conv]))
       = {"date", "time", "customerName", "customerPhone", "customerEmail"}

StickyFields ==
  {"serviceName", "date", "time", "customerName", "customerPhone",
   "customerEmail"}

\* C10: the draft a turn extracts has every field set that is set in the
\* draft it read; and a field of a persisted draft goes from set to unset
\* only in the step that ends a failed commit or a successful one
C10_FieldsAreSticky ==
  [][/\ \A r \in Requests :
          (req[r].pc = "idle" /\ req'[r].pc = "persist")
            => \A f \in StickyFields :
                 draftOrEmpty(bookingDraft[req'[r].conv])[f] # ""
                   => req'[r].draft[f] # ""
     /\ \A c \in Convs : \A f \in StickyFields :
          (draftOrEmpty(bookingDraft[c])[f] # ""
             /\ draftOrEmpty(bookingDraft'[c])[f] = "")
            => \E r \in Requests :
                 /\ req[r].conv = c
                 /\ Ends(r, "validate") \/ Ends(r, "close")]_vars

\* a turn has extracted its draft over a persisted draft that holds a
\* service, a date and a time, while the language model and the text gave
\* none of them
C10_Witness ==
  \E r \in Requests :
    /\ req[r].pc = "persist"
    /\ bookingDraft[req[r].conv] # DbNull
    /\ \A f \in StickyFields : draftOrEmpty(bookingDraft[req[r].conv])[f] # ""
    /\ req[r].draft = [draftOrEmpty(bookingDraft[req[r].conv])
                         EXCEPT !.confirmed = "false"]

\* ------------------------------------------------------------------------
\* extractBookingInfo called on its own, for any turn text, previous draft
\* and language-model response
\* ------------------------------------------------------------------------
\* msg "2:30 pm"
HalfPastTwoPm == [PlainMsg EXCEPT !.ap = "pm", !.h = 2, !.m = 30]

ExtractMsgs ==
  { PlainMsg, TomorrowAt1pm, HalfPastTwoPm,
    [PlainMsg EXCEPT !.noon = TRUE],
    [PlainMsg EXCEPT !.today = TRUE],
    [PlainMsg EXCEPT !.weekday = "monday"],
    [PlainMsg EXCEPT !.confirmKw = TRUE],
    [PlainMsg EXCEPT !.cancelKw = TRUE],
    [PlainMsg EXCEPT !.confirmKw = TRUE, !.cancelKw = TRUE] }

ExtractPrevs ==
  { EmptyDraft, BaseHaircut, FullHaircut,
    [BaseHaircut EXCEPT !.confirmed = "false"],
    [EmptyDraft EXCEPT !.time = "08:30"],
    \* a Sunday, the weekday of "tomorrow"
    [EmptyDraft EXCEPT !.date = "2026-02-15"] }

ExtractLlms ==
  { Silent,
    [kind |-> "nojson", fields |-> EmptyDraft],
    [kind |-> "badjson", fields |-> EmptyDraft],
    Json([EmptyDraft EXCEPT !.time = "15:30"]),
    Json([EmptyDraft EXCEPT !.date = "2026-02-10"]),
    \* a Sunday one week after "tomorrow"
    Json([EmptyDraft EXCEPT !.date = "2026-02-15"]),
    Json([EmptyDraft EXCEPT !.customerName = "Bo Li"]),
    Json([EmptyDraft EXCEPT !.confirmed = "true"]),
    Json([EmptyDraft EXCEPT !.confirmed = "false"]) }

InitExtract ==
  /\ now = StartNow
  /\ bookings = <<>>
  /\ status = [c \in Convs |-> "NONE"]
  /\ bookingDraft = [c \in Convs |-> DbNull]
  /\ req = [r \in Requests |-> IdleReq]
  /\ out = NoReply
  /\ committed = [c \in Convs |-> 0]
  /\ turns = 0
  /\ messages = [c \in Convs |-> <<>>]
  /\ errlog = {}
  /\ probe \in {[fn |-> "extractBookingInfo", msg |-> m, previousData |-> p,
                  llm |-> l, done |-> FALSE, result |-> EmptyDraft] :
                   m \in ExtractMsgs, p \in ExtractPrevs, l \in ExtractLlms}

ApplyExtract ==
  /\ probe.fn = "extractBookingInfo"
  /\ ~probe.done
  /\ probe' = [probe EXCEPT !.done = TRUE,
                            !.result = extractBookingInfo(probe.msg,
                                                          probe.previousData,
                                                          probe.llm, now)]
  /\ UNCHANGED <<now, bookings, status, bookingDraft, req, out, committed, turns,
               messages, errlog>>

NextExtract == ApplyExtract

SpecExtract == InitExtract /\ [][NextExtract]_vars

\* an extractBookingInfo call has returned
Extracted == probe.fn = "extractBookingInfo" /\ probe.done

\* what the language model reported for the turn: nothing when its response
\* holds no object
Reported(llm) == IF llm.kind = "json" THEN llm.fields ELSE EmptyDraft

\* the value of field f by the order: reported value, fallback rule, previous
ByPrecedence(f, msg, previousData, llm, n) ==
  LET fallback == CASE f = "date" -> computedDate(msg, n)
                    [] f = "time" -> fallbackTime(msg)
                    [] OTHER -> ""
  IN  IF Reported(llm)[f] # "" THEN Reported(llm)[f]
      ELSE IF fallback # "" THEN fallback
      ELSE previousData[f]

\* C11: when the response of the language model is not unparsable, every
\* field of the draft extractBookingInfo returns is the reported value when
\* that is non-empty, else the value of the fallback rule matching the turn
\* text, else the value of the previous draft
C11_ReportedThenFallbackThenPrevious ==
  (Extracted /\ probe.llm.kind # "badjson")
    => \A f \in StickyFields :
         probe.result[f]
           = ByPrecedence(f, probe.msg, probe.previousData, probe.llm, now)

\* C12: when the language model reports no confirmation, a confirmation
\* keyword gives confirmed = true and a cancellation keyword confirmed =
\* false whatever the previous draft held, and with no keyword confirmed
\* keeps the previous value
C12_KeywordSetsConfirmed ==
  (Extracted /\ probe.llm.kind # "badjson"
     /\ Reported(probe.llm).confirmed = "undefined")
    => /\ (probe.msg.confirmKw /\ ~probe.msg.cancelKw)
            => probe.result.confirmed = "true"
       /\ (probe.msg.cancelKw /\ ~probe.msg.confirmKw)
            => probe.result.confirmed = "false"
       /\ (~probe.msg.cancelKw /\ ~probe.msg.confirmKw)
            => probe.result.confirmed = probe.previousData.confirmed

\* C13: when the response of the language model cannot be parsed, the draft
\* returned is the previous draft with the fallback rules applied, and no
\* field set in the previous draft is unset
C13_UnparsableDegradesToFallback ==
  (Extracted /\ probe.llm.kind \in {"nojson", "badjson"})
    => /\ probe.result
            = applyConfirmFallback(
                applyTimeFallback(
                  applyDateFallback(probe.previousData, probe.msg, now),
                  probe.msg),
                probe.msg)
       /\ \A f \in StickyFields :
            probe.previousData[f] # "" => probe.result[f] # ""

\* ------------------------------------------------------------------------
\* route.ts suggestTimes
\* ------------------------------------------------------------------------
stepMinutes == 30

\* DateTime.toFormat("h:mm a") of the instant t
formatTime12(t) ==
  LET hour == (t % DayMinutes) \div 60
      minute == t % 60
      h12 == IF hour % 12 = 0 THEN 12 ELSE hour % 12
  IN  (IF h12 < 10 THEN Digit(h12) ELSE Pad2(h12)) \o ":" \o Pad2(minute)
        \o (IF hour < 12 THEN " AM" ELSE " PM")

\* suggestTimes without the lead-time test of line 162
RECURSIVE suggestLoop_NoLeadTest(_, _, _, _, _, _)
suggestLoop_NoLeadTest(t, close, mins, n, found, suggestions) ==
  IF t + mins + BUFFER_MIN > close THEN suggestions
  ELSE IF \E i \in 1..Len(found) :
            t < found[i].endAt /\ t + mins + BUFFER_MIN > found[i].startAt
    THEN suggestLoop_NoLeadTest(t + stepMinutes, close, mins, n, found, suggestions)
  ELSE IF Len(suggestions) + 1 >= 5 THEN Append(suggestions, formatTime12(t))
  ELSE suggestLoop_NoLeadTest(t + stepMinutes, close, mins, n, found,
                              Append(suggestions, formatTime12(t)))

\* the loop that stops at six suggestions
RECURSIVE suggestLoop_SixSuggestions(_, _, _, _, _, _)
suggestLoop_SixSuggestions(t, close, mins, n, found, suggestions) ==
  IF t + mins + BUFFER_MIN > close THEN suggestions
  ELSE IF ~enforceSameDayLead(t, n).ok
    THEN suggestLoop_SixSuggestions(t + stepMinutes, close, mins, n, found,
                                    suggestions)
  ELSE IF \E i \in 1..Len(found) :
            t < found[i].endAt /\ t + mins + BUFFER_MIN > found[i].startAt
    THEN suggestLoop_SixSuggestions(t + stepMinutes, close, mins, n, found,
                                    suggestions)
  ELSE IF Len(suggestions) + 1 >= 6 THEN Append(suggestions, formatTime12(t))
  ELSE suggestLoop_SixSuggestions(t + stepMinutes, close, mins, n, found,
                                  Append(suggestions, formatTime12(t)))

\* lines 161-172: the loop over the slots from t on
RECURSIVE suggestLoop(_, _, _, _, _, _)
suggestLoop(t, close, mins, n, found, suggestions) ==
  IF t + mins + BUFFER_MIN > close THEN suggestions
  ELSE IF ~enforceSameDayLead(t, n).ok
    THEN suggestLoop(t + stepMinutes, close, mins, n, found, suggestions)
  ELSE IF \E i \in 1..Len(found) :
            t < found[i].endAt /\ t + mins + BUFFER_MIN > found[i].startAt
    THEN suggestLoop(t + stepMinutes, close, mins, n, found, suggestions)
  ELSE IF Len(suggestions) + 1 >= 5 THEN Append(suggestions, formatTime12(t))
  ELSE suggestLoop(t + stepMinutes, close, mins, n, found,
                   Append(suggestions, formatTime12(t)))

\* lines 133-175; durationOverride 0 stands for an argument left out
suggestTimes(date, serviceName, durationOverride, n, store) ==
  LET mins == IF durationOverride # 0 THEN durationOverride
              ELSE IF serviceName # "" THEN minutesForService(serviceName)
              ELSE 0
      day == DayOfDateStr(date)
  IN  IF mins = 0 \/ day = Invalid THEN <<>>
      ELSE LET hours == HOURS[WeekdayOf(day * DayMinutes)]
               open == day * DayMinutes + hours.open
               close == day * DayMinutes + hours.close
               InDay(b) == /\ b.status \in BlockingStatus
                           /\ b.startAt < close
                           /\ b.endAt > open
           IN  IF ~hours.isOpen THEN <<>>
               ELSE suggestLoop(open, close, mins, n, SelectSeq(store, InDay), <<>>)

\* ------------------------------------------------------------------------
\* the booking rules, the conflict query and suggestTimes called on their
\* own
\* ------------------------------------------------------------------------
BookingStatusValues ==
  {"PENDING", "CONFIRMED", "CANCELLED", "RESCHEDULED", "ESCALATED"}

\* one reservation 10:00 to 10:30 of each status, candidates around it
OverlapProbes ==
  {[fn |-> "findOverlap",
    store |-> <<[status |-> st, serviceName |-> "Kids Haircut",
                 startAt |-> 10 * 60, endAt |-> 10 * 60 + 30]>>,
    start |-> s, end |-> s + len, done |-> FALSE, result |-> FALSE] :
     st \in BookingStatusValues,
     s \in {9 * 60 + 30, 9 * 60 + 59, 10 * 60, 10 * 60 + 15, 10 * 60 + 29,
            10 * 60 + 30, 10 * 60 + 31},
     len \in {1, 15, 30, 45}}

\* Saturday, Sunday, Monday and Thursday; starts around the opening times
\* (9:00, 10:00) and ends around the closing times (16:00, 18:00, 20:00)
HoursProbes ==
  {[fn |-> "isWithinBusinessHours", start |-> d * DayMinutes + m,
    end |-> d * DayMinutes + m + len, done |-> FALSE,
    result |-> [ok |-> FALSE, reason |-> ""]] :
     d \in {0, 1, 2, 5},
     m \in {8 * 60 + 59, 9 * 60, 9 * 60 + 1, 9 * 60 + 59, 10 * 60, 12 * 60,
            15 * 60 + 24, 15 * 60 + 25, 15 * 60 + 26,
            17 * 60 + 24, 17 * 60 + 25, 17 * 60 + 26,
            19 * 60 + 24, 19 * 60 + 25, 19 * 60 + 26},
     len \in {20, 35}}

\* clocks at 12:00, 22:00 and 23:20 of day 0; starts before the clock, 59,
\* 60 and 61 minutes after it, and on the next day
LeadProbes ==
  {[fn |-> "enforceSameDayLead", start |-> n + k, now |-> n, done |-> FALSE,
    result |-> [ok |-> FALSE, reason |-> ""]] :
     n \in {12 * 60, 22 * 60, 23 * 60 + 20},
     k \in {0 - 30, 0, 1, 59, 60, 61, 100, 12 * 60, 24 * 60}}

SuggestStores ==
  { <<>>,
    <<Booked("CONFIRMED", "Haircut (Standard)", "2026-02-09", "13:00")>>,
    <<Booked("PENDING", "Head Shave", "2026-02-09", "08:30"),
      Booked("CONFIRMED", "Haircut (Standard)", "2026-02-09", "12:00")>>,
    <<Booked("CANCELLED", "Haircut (Standard)", "2026-02-09", "08:30"),
      Booked("CONFIRMED", "Head Shave", "2026-02-07", "15:30")>>,
    <<Booked("CONFIRMED", "Head Shave", "2026-02-07", "13:00"),
      Booked("CONFIRMED", "Haircut (Standard)", "2026-02-07", "15:30")>> }

\* the clocks of the suggestTimes calls: the Saturday clocks and Monday
\* 2026-02-09 at 10:00, when Saturday and Sunday are past dates
SuggestNows == ProbeNows \cup {2 * DayMinutes + 10 * 60}

SuggestProbes ==
  {[fn |-> "suggestTimes", date |-> d, serviceName |-> s,
    durationOverride |-> o, now |-> n, store |-> st, done |-> FALSE,
    result |-> <<>>] :
     d \in {"", "monday", "2026-02-07", "2026-02-08", "2026-02-09"},
     s \in {"", "Massage", "Haircut (Standard)", "Head Shave"},
     o \in {0, 30}, n \in SuggestNows, st \in SuggestStores}

InitRules ==
  /\ now = StartNow
  /\ bookings = <<>>
  /\ status = [c \in Convs |-> "NONE"]
  /\ bookingDraft = [c \in Convs |-> DbNull]
  /\ req = [r \in Requests |-> IdleReq]
  /\ out = NoReply
  /\ committed = [c \in Convs |-> 0]
  /\ turns = 0
  /\ messages = [c \in Convs |-> <<>>]
  /\ errlog = {}
  /\ probe \in OverlapProbes \cup HoursProbes \cup LeadProbes \cup SuggestProbes

ApplyOverlap ==
  /\ probe.fn = "findOverlap"
  /\ ~probe.done
  /\ probe' = [probe EXCEPT !.done = TRUE,
                            !.result = findOverlap(probe.store, probe.start,
                                                   probe.end)]
  /\ UNCHANGED <<now, bookings, status, bookingDraft, req, out, committed, turns,
               messages, errlog>>

ApplyHours ==
  /\ probe.fn = "isWithinBusinessHours"
  /\ ~probe.done
  /\ probe' = [probe EXCEPT !.done = TRUE,
                            !.result = isWithinBusinessHours(probe.start,
                                                             probe.end)]
  /\ UNCHANGED <<now, bookings, status, bookingDraft, req, out, committed, turns,
               messages, errlog>>

ApplyLead ==
  /\ probe.fn = "enforceSameDayLead"
  /\ ~probe.done
  /\ probe' = [probe EXCEPT !.done = TRUE,
                            !.result = enforceSameDayLead(probe.start, probe.now)]
  /\ UNCHANGED <<now, bookings, status, bookingDraft, req, out, committed, turns,
               messages, errlog>>

ApplySuggest ==
  /\ probe.fn = "suggestTimes"
  /\ ~probe.done
  /\ probe' = [probe EXCEPT !.done = TRUE,
                            !.result = suggestTimes(probe.date, probe.serviceName,
                                                    probe.durationOverride,
                                                    probe.now, probe.store)]
  /\ UNCHANGED <<now, bookings, status, bookingDraft, req, out, committed, turns,
               messages, errlog>>

NextRules == ApplyOverlap \/ ApplyHours \/ ApplyLead \/ ApplySuggest

SpecRules == InitRules /\ [][NextRules]_vars

\* the minutes of the half-open interval [a, b)
Minutes(a, b) == a..(b - 1)

\* C14: the conflict query finds a reservation exactly when some PENDING or
\* CONFIRMED reservation shares a minute with the candidate [start, end);
\* the answer is the same with candidate and reservation exchanged, and a
\* reservation that ends when the candidate starts, or starts when it ends,
\* is no conflict
C14_ConflictIffBlockingSharesMinute ==
  (probe.fn = "findOverlap" /\ probe.done)
    => LET b == probe.store[1]
           swapped == <<[b EXCEPT !.startAt = probe.start, !.endAt = probe.end]>>
       IN  /\ probe.result
                <=> /\ b.status \in {"PENDING", "CONFIRMED"}
                    /\ Minutes(b.startAt, b.endAt)
                         \cap Minutes(probe.start, probe.end) # {}
           /\ probe.result = findOverlap(swapped, b.startAt, b.endAt)
           /\ (b.endAt = probe.start \/ probe.end = b.startAt) => ~probe.result

\* a candidate 10:29 to 10:30 conflicts with the reservation ending at 10:30
C14_Witness ==
  /\ probe.fn = "findOverlap" /\ probe.done
  /\ probe.start = 10 * 60 + 29 /\ probe.end = 10 * 60 + 30
  /\ probe.store[1].endAt = probe.end
  /\ probe.result

\* C15: isWithinBusinessHours accepts exactly when the weekday of start is
\* an open day, start is not before that day's opening and end is not after
\* its closing; a rejection gives the closed-day reason on a closed day,
\* else the too-early reason when start is before the opening, else the
\* too-late reason
C15_WithinHoursIffBetweenOpenAndClose ==
  (probe.fn = "isWithinBusinessHours" /\ probe.done)
    => LET hours == HOURS[WeekdayOf(probe.start)]
           midnight == probe.start - (probe.start % DayMinutes)
           accepted == /\ hours.isOpen
                       /\ probe.start >= midnight + hours.open
                       /\ probe.end <= midnight + hours.close
       IN  /\ probe.result.ok <=> accepted
           /\ ~accepted =>
                probe.result.reason =
                  IF ~hours.isOpen THEN "Shop is closed that day."
                  ELSE IF probe.start < midnight + hours.open
                    THEN "Too early. Opens at"
                  ELSE "Too late. Closes at"

\* Saturday 15:25 to 16:00: the end is exactly the closing time
C15_Witness ==
  /\ probe.fn = "isWithinBusinessHours" /\ probe.done
  /\ probe.start = 15 * 60 + 25 /\ probe.end = 16 * 60
  /\ probe.result.ok

\* C16: enforceSameDayLead accepts a start on the calendar day of now
\* exactly when it is at least 60 minutes after now, and accepts every start
\* on a later calendar day
C16_SameDayLeadBoundary ==
  (probe.fn = "enforceSameDayLead" /\ probe.done)
    => LET sameDay == probe.start \div DayMinutes = probe.now \div DayMinutes
       IN  /\ sameDay => (probe.result.ok <=> probe.start - probe.now >= 60)
           /\ probe.start \div DayMinutes > probe.now \div DayMinutes
                => probe.result.ok

\* 23:20 and a start at 00:19 of the next day, 59 minutes later
C16_Witness ==
  /\ probe.fn = "enforceSameDayLead" /\ probe.done
  /\ probe.now = 23 * 60 + 20 /\ probe.start = probe.now + 59
  /\ probe.result.ok

\* the instant of day d that toFormat("h:mm a") prints as s
SlotOf(d, s) ==
  CHOOSE t \in (d * DayMinutes)..(d * DayMinutes + DayMinutes - 1) :
    formatTime12(t) = s

\* C17: every start suggestTimes returns passes the same-day lead test, has
\* start and start + duration + buffer within the day's business hours and
\* overlaps no PENDING or CONFIRMED reservation of the store; the starts are
\* strictly increasing
C17_SuggestionsPassEveryCheck ==
  (probe.fn = "suggestTimes" /\ probe.done)
    => LET d == DayOfDateStr(probe.date)
           mins == IF probe.durationOverride # 0 THEN probe.durationOverride
                   ELSE SERVICES[probe.serviceName]
           at(i) == SlotOf(d, probe.result[i])
       IN  /\ \A i \in 1..Len(probe.result) :
                /\ enforceSameDayLead(at(i), probe.now).ok
                /\ isWithinBusinessHours(at(i), at(i) + mins + BUFFER_MIN).ok
                /\ ~findOverlap(probe.store, at(i), at(i) + mins + BUFFER_MIN)
           /\ \A i \in 1..(Len(probe.result) - 1) : at(i) < at(i + 1)

\* Saturday at 12:00 with 13:00-13:50 and 15:30-16:05 reserved: a haircut
\* at 13:00 conflicts, and the suggestions are 14:00 and 14:30
C17_Witness ==
  /\ probe.fn = "suggestTimes" /\ probe.done
  /\ probe.date = "2026-02-07" /\ probe.now = StartNow
  /\ probe.serviceName = "Haircut (Standard)" /\ probe.durationOverride = 0
  /\ findOverlap(probe.store, parseStart(probe.date, "13:00"),
                 parseStart(probe.date, "13:00") + 35)
  /\ probe.result = <<"2:00 PM", "2:30 PM">>

\* C18: a request answered 400 (no body, not JSON, no string message) or
\* 404 (unknown conversation id) changes no row: no conversation is
\* created, no message logged, no draft written, no booking created
C18_RejectedTurnMutatesNothing ==
  [][out'.reply \in {"error400", "error404"}
       => UNCHANGED <<status, messages, bookingDraft, bookings>>]_vars

\* a request naming conversation 2, which has no row, while conversation 1
\* is open with messages and a draft
C18_Witness ==
  /\ out.reply = "error404"
  /\ status[1] = "OPEN" /\ status[2] = "NONE"
  /\ messages[1] # <<>> /\ bookingDraft[1] # DbNull

\* C19: when a notification of a successful commit fails, the booking stays
\* in the table, the conversation is closed, its draft discarded and the
\* reply is the success reply
C19_NotificationFailureKeepsCommit ==
  [][\A r \in Requests :
       (req[r].pc = "close" /\ req'[r].pc = "idle" /\ errlog' # {})
         => /\ bookings' = bookings
            /\ \E i \in 1..Len(bookings') :
                 /\ bookings'[i].status = "CONFIRMED"
                 /\ bookings'[i].startAt = req[r].start
                 /\ bookings'[i].endAt = req[r].end
            /\ status'[req[r].conv] = "CLOSED"
            /\ bookingDraft'[req[r].conv] = DbNull
            /\ out' = [conv |-> req[r].conv, reply |-> "booked"]]_vars

\* both notifications of a commit have failed
C19_Witness ==
  /\ errlog = Notifications
  /\ out.reply = "booked"
  /\ status[out.conv] = "CLOSED" /\ bookingDraft[out.conv] = DbNull
  /\ Len(bookings) = 1 /\ committed[out.conv] = 1

\* C20: the write of a turn's draft unsets no field that is set in the
\* conversation's persisted draft, whatever other turn of the conversation
\* wrote it while this turn was in flight
C20_NoFieldLostToConcurrentTurn ==
  [][\A r \in Requests :
       (req[r].pc = "persist" /\ req'[r].pc # "persist")
         => \A f \in StickyFields :
              draftOrEmpty(bookingDraft[req[r].conv])[f] # ""
                => draftOrEmpty(bookingDraft'[req[r].conv])[f] # ""]_vars

\* ------------------------------------------------------------------------
\* missingFields called on its own, before and after a merge
\* ------------------------------------------------------------------------
\* every draft with each required field either unset or set
MissingDrafts ==
  {[serviceName |-> s, date |-> d, time |-> t, customerName |-> n,
    customerPhone |-> p, customerEmail |-> e, confirmed |-> "undefined"] :
     s \in {"", "Head Shave"}, d \in {"", "2026-02-10"}, t \in {"", "15:30"},
     n \in {"", "Bo Li"}, p \in {"", "555-0199"}, e \in {"", "bo@example.com"}}

\* what the language model reports when it reports the fields of the set fs
ReportOf(fs) ==
  [f \in DOMAIN EmptyDraft |->
     IF f \in fs THEN BaseHaircut[f] ELSE EmptyDraft[f]]

\* lines 343-344 with the language model reporting `reported` and a turn
\* text no fallback rule matches
mergedDraft(d, reported) ==
  LET e == extractBookingInfo(PlainMsg, d, Json(reported), StartNow)
  IN  [e EXCEPT !.serviceName = normalizeServiceName(e.serviceName)]

InitMissing ==
  /\ now = StartNow
  /\ bookings = <<>>
  /\ status = [c \in Convs |-> "NONE"]
  /\ bookingDraft = [c \in Convs |-> DbNull]
  /\ req = [r \in Requests |-> IdleReq]
  /\ out = NoReply
  /\ committed = [c \in Convs |-> 0]
  /\ turns = 0
  /\ messages = [c \in Convs |-> <<>>]
  /\ errlog = {}
  /\ probe \in {[fn |-> "missingFields", draft |-> d, field |-> f,
                  done |-> FALSE, missing |-> {}, afterAll |-> {},
                  afterOne |-> {}] :
                   d \in MissingDrafts, f \in StickyFields}

ApplyMissing ==
  /\ probe.fn = "missingFields"
  /\ ~probe.done
  /\ LET missing == missingFields(probe.draft)
     IN  probe' = [probe EXCEPT
                     !.done = TRUE,
                     !.missing = missing,
                     !.afterAll =
                       missingFields(mergedDraft(probe.draft, ReportOf(missing))),
                     !.afterOne =
                       missingFields(mergedDraft(probe.draft,
                                                 ReportOf({probe.field})))]
  /\ UNCHANGED <<now, bookings, status, bookingDraft, req, out, committed, turns,
                 messages, errlog>>

NextMissing == ApplyMissing

SpecMissing == InitMissing /\ [][NextMissing]_vars

\* C21: merging a non-empty value for every field missingFields reports
\* into a draft gives a draft with nothing missing, and merging a value for
\* one field adds no field to the missing set
C21_CompletenessMonotonic ==
  (probe.fn = "missingFields" /\ probe.done)
    => /\ probe.afterAll = {}
       /\ probe.afterOne \subseteq probe.missing

\* the empty draft: six fields are reported, none after merging them all,
\* five after merging the date
C21_Witness ==
  /\ probe.fn = "missingFields" /\ probe.done
  /\ probe.draft = EmptyDraft /\ probe.field = "date"
  /\ Cardinality(probe.missing) = 6
  /\ probe.afterAll = {}
  /\ probe.afterOne = probe.missing \ {"date"}

\* ------------------------------------------------------------------------
\* Commits executed one at a time, from a store that already holds
\* reservations
\* ------------------------------------------------------------------------
\* the turns that can end in a commit
CommitInputs ==
  {t \in TurnInputs : t.llm.kind = "json" /\ t.llm.fields.serviceName # ""
                        /\ t.llm.fields.date # "" /\ t.llm.fields.customerEmail # ""}
    \cup {t \in TurnInputs : t.msg.confirmKw /\ t.llm.kind = "json"}

\* stores without an overlapping pair of PENDING or CONFIRMED reservations
CommitStores ==
  { <<>>,
    <<Booked("PENDING", "Haircut (Standard)", "2026-02-09", "12:00")>>,
    <<Booked("CANCELLED", "Head Shave", "2026-02-09", "12:30"),
      Booked("CONFIRMED", "Haircut (Standard)", "2026-02-09", "12:30")>> }

InitCommit ==
  /\ now = StartNow
  /\ bookings \in CommitStores
  /\ status = [c \in Convs |-> "NONE"]
  /\ bookingDraft = [c \in Convs |-> DbNull]
  /\ req = [r \in Requests |-> IdleReq]
  /\ out = NoReply
  /\ committed = [c \in Convs |-> 0]
  /\ turns = 0
  /\ probe = NoProbe
  /\ messages = [c \in Convs |-> <<>>]
  /\ errlog = {}

\* validateAndSave begun only when no other call of it is between its
\* conflict query and its create
ValidateAlone(r) ==
  /\ \A q \in Requests : req[q].pc # "create"
  /\ Validate(r)

NextCommit ==
  \/ \E r \in Requests, c \in Convs, t \in CommitInputs :
       BeginTurn(r, c, t.msg, t.llm)
  \/ \E r \in Requests : PersistDraft(r)
  \/ \E r \in Requests : ValidateAlone(r)
  \/ \E r \in Requests : CreateBooking(r)
  \/ \E r \in Requests : CloseConversation(r)
  \/ Tick

SpecCommit == InitCommit /\ [][NextCommit]_vars

\* no two PENDING or CONFIRMED reservations of the store share a minute
NoOverlappingPair(store) ==
  \A i, j \in 1..Len(store) :
    (i # j /\ store[i].status \in {"PENDING", "CONFIRMED"}
           /\ store[j].status \in {"PENDING", "CONFIRMED"})
      => Minutes(store[i].startAt, store[i].endAt)
           \cap Minutes(store[j].startAt, store[j].endAt) = {}

\* C22: when no commit runs between another commit's conflict query and
\* its create, a step taken from a store without an overlapping pair of
\* PENDING or CONFIRMED reservations leaves a store without such a pair
C22_SerialCommitsPreserveNoOverlap ==
  [][NoOverlappingPair(bookings) => NoOverlappingPair(bookings')]_vars

\* the store held a PENDING reservation 12:00-12:35 and a commit has added
\* a CONFIRMED one next to it
C22_Witness ==
  /\ Len(bookings) = 2
  /\ bookings[1].status = "PENDING" /\ bookings[2].status = "CONFIRMED"
  /\ NoOverlappingPair(bookings)
  /\ out.reply = "booked"

\* the replies of a failed commit
CorrectiveReplies ==
  {"sorryHours", "sorryClosed", "sorryTaken", "sorryPast", "sorryOther"}

\* C23: the step that ends a failed commit leaves the conversation OPEN,
\* persists a draft with a required field unset and confirmed not true,
\* keeps customerName, customerPhone and customerEmail, and replies with a
\* corrective question
C23_FailedCommitIsNotFatal ==
  [][\A r \in Requests :
       Ends(r, "validate")
         => LET c == req[r].conv
                d == draftOrEmpty(bookingDraft'[c])
            IN  /\ status'[c] = "OPEN"
                /\ bookingDraft'[c] # DbNull
                /\ missingFields(d) # {}
                /\ d.confirmed # "true"
                /\ d.customerName = req[r].draft.customerName
                /\ d.customerPhone = req[r].draft.customerPhone
                /\ d.customerEmail = req[r].draft.customerEmail
                /\ out' \in {[conv |-> c, reply |-> q] : q \in CorrectiveReplies}]_vars

\* the same for a commit attempted on a conversation that is OPEN
C23_FailedCommitOnOpenConversation ==
  [][\A r \in Requests :
       (Ends(r, "validate") /\ status[req[r].conv] = "OPEN")
         => LET c == req[r].conv
                d == draftOrEmpty(bookingDraft'[c])
            IN  /\ status'[c] = "OPEN"
                /\ bookingDraft'[c] # DbNull
                /\ missingFields(d) # {}
                /\ d.confirmed # "true"
                /\ d.customerName = req[r].draft.customerName
                /\ d.customerPhone = req[r].draft.customerPhone
                /\ d.customerEmail = req[r].draft.customerEmail
                /\ out' \in {[conv |-> c, reply |-> q] : q \in CorrectiveReplies}]_vars

\* ------------------------------------------------------------------------
\* One commit attempt and one availability check of the same draft, at the
\* same instant, on the same store
\* ------------------------------------------------------------------------
InitAttempt ==
  /\ now = StartNow
  /\ bookings = <<>>
  /\ status = [c \in Convs |-> "NONE"]
  /\ bookingDraft = [c \in Convs |-> DbNull]
  /\ req = [r \in Requests |-> IdleReq]
  /\ out = NoReply
  /\ committed = [c \in Convs |-> 0]
  /\ turns = 0
  /\ messages = [c \in Convs |-> <<>>]
  /\ errlog = {}
  /\ probe \in {[fn |-> "attempt", draft |-> d, now |-> n, store |-> st,
                  done |-> FALSE, result |-> Fail(""), advisory |-> Fail(""),
                  updatedDraft |-> EmptyDraft, reply |-> ""] :
                   d \in ProbeDrafts, n \in ProbeNows, st \in ProbeStores}

\* POST lines 344, 347 and 426-450 for the draft of one turn
ApplyAttempt ==
  /\ probe.fn = "attempt"
  /\ ~probe.done
  /\ LET draft == [probe.draft EXCEPT
                     !.serviceName = normalizeServiceName(probe.draft.serviceName)]
         result == validateAndSave(draft, probe.now, probe.store)
     IN  probe' = [probe EXCEPT
                     !.done = TRUE,
                     !.result = result,
                     !.advisory = checkAvailability(draft, probe.now, probe.store),
                     !.updatedDraft = IF result.ok THEN draft
                                      ELSE failureDraft(draft, result.reason),
                     !.reply = IF result.ok THEN "booked"
                               ELSE failureReply(result.reason)]
  /\ UNCHANGED <<now, bookings, status, bookingDraft, req, out, committed, turns,
                 messages, errlog>>

NextAttempt == ApplyAttempt

SpecAttempt == InitAttempt /\ [][NextAttempt]_vars

\* C24: when the commit fails because the service is not in the catalog,
\* the draft persisted has serviceName cleared and keeps date and time, so
\* that the next prompt asks for the service
C24_UnknownServiceClearsService ==
  (probe.fn = "attempt" /\ probe.done /\ AllRequiredSet(probe.draft)
     /\ probe.draft.serviceName \notin DOMAIN SERVICES)
    => /\ ~probe.result.ok
       /\ probe.updatedDraft.serviceName = ""
       /\ probe.updatedDraft.date = probe.draft.date
       /\ probe.updatedDraft.time = probe.draft.time
       /\ missingPrompt(missingFields(probe.updatedDraft)) = "askService"

\* the rule a failure reason of validateAndSave or checkAvailability names
RuleOfReason(reason) ==
  CASE reason \in {"That service is not supported.", "unsupported-service"}
         -> "service"
    [] reason \in {"Invalid date/time format.", "invalid-date-time"} -> "parse"
    [] reason \in {"That time is in the past. Pick a future time.", "past"}
         -> "past"
    [] reason = "Same-day bookings must be at least 60 minutes in advance."
         -> "lead"
    [] reason \in {"Shop is closed that day.", "Too early. Opens at",
                   "Too late. Closes at"} -> "hours"
    [] reason \in {"That time is already taken. Please choose another time.",
                   "taken"} -> "conflict"
    [] OTHER -> reason

\* C28: for a draft with every required field set, checkAvailability is ok
\* exactly when validateAndSave at the same instant on the same store is
\* ok, and when they fail they fail at the same rule
C28_CommitRevalidatesAdvisoryRules ==
  (probe.fn = "attempt" /\ probe.done /\ AllRequiredSet(probe.draft))
    => /\ probe.advisory.ok <=> probe.result.ok
       /\ ~probe.result.ok
            => /\ RuleOfReason(probe.advisory.reason)
                    = RuleOfReason(probe.result.reason)
               /\ RuleOfReason(probe.result.reason)
                    \in {"service", "parse", "past", "lead", "hours", "conflict"}

\* a draft for 12:30 of the current day at 12:00, with 12:30 reserved on
\* another day: both fail at the lead time
C28_Witness ==
  /\ probe.fn = "attempt" /\ probe.done /\ AllRequiredSet(probe.draft)
  /\ probe.now = StartNow
  /\ probe.draft.date = "2026-02-07" /\ probe.draft.time = "12:30"
  /\ probe.store # <<>>
  /\ ~probe.advisory.ok /\ ~probe.result.ok
  /\ RuleOfReason(probe.advisory.reason) = "lead"

\* C25: a turn whose language-model call fails still completes: the step
\* that ends it returns a reply and no error response, the conversation's
\* draft is persisted, and an AGENT message follows the turn's USER message
C25_LlmFailureNeverSurfaced ==
  [][\A c \in Convs :
       (errlog' = {"Chat API error:"} /\ out'.conv = c)
         => /\ out'.reply # "error500"
            /\ bookingDraft'[c] # DbNull
            /\ Len(messages'[c]) = Len(messages[c]) + 2
            /\ messages'[c][Len(messages'[c])] = "AGENT"]_vars

\* the weekday of an ISO date string
WeekdayOfDate(date) == WeekdayOf(DayOfDateStr(date) * DayMinutes)

\* C26: when the text has a relative-date phrase, the returned date is the
\* merged date or the computed date; it is the computed date in place of the
\* merged one only when the language model reported no date this turn or
\* the reported date is invalid or falls on another weekday than the
\* computed date; a reported date on the weekday of the phrase is returned
\* unchanged
C26_FallbackDateOnlyOnWeekdayMismatch ==
  LET cd == computedDate(probe.msg, now)
      reported == Reported(probe.llm).date
      merged == mergeExtracted(probe.previousData, Reported(probe.llm)).date
  IN  (Extracted /\ cd # "")
        => /\ probe.result.date \in {merged, cd}
           /\ probe.result.date # merged
                => \/ reported = ""
                   \/ DayOfDateStr(reported) = Invalid
                   \/ WeekdayOfDate(reported) # WeekdayOfDate(cd)
           /\ (reported # "" /\ DayOfDateStr(reported) # Invalid
                 /\ WeekdayOfDate(reported) = WeekdayOfDate(cd))
                => probe.result.date = reported

\* the text says "tomorrow" (Sunday 2026-02-08) and the language model
\* reported the Sunday after it, which was returned
C26_Witness ==
  /\ Extracted
  /\ probe.msg.tomorrow
  /\ computedDate(probe.msg, now) = "2026-02-08"
  /\ Reported(probe.llm).date = "2026-02-15"
  /\ probe.result.date = "2026-02-15"

\* the starts of the 30-minute grid of day d, from the day's open time, whose
\* start + mins + buffer is not after the close time
GridStarts(d, mins) ==
  LET hours == HOURS[WeekdayOf(d * DayMinutes)]
  IN  {t \in {d * DayMinutes + hours.open + 30 * i : i \in 0..47} :
         t + mins + BUFFER_MIN <= d * DayMinutes + hours.close}

\* the grid starts that pass the lead test and share no minute with a
\* PENDING or CONFIRMED reservation
FeasibleStarts(d, mins, n, store) ==
  {t \in GridStarts(d, mins) :
     /\ n + 60 <= t \/ DayOf(t) # DayOf(n)
     /\ \A i \in 1..Len(store) :
          store[i].status \in {"PENDING", "CONFIRMED"}
            => Minutes(t, t + mins + BUFFER_MIN)
                 \cap Minutes(store[i].startAt, store[i].endAt) = {}}

\* C27: for a valid date and a known duration suggestTimes returns, in
\* increasing order, the min(5, k) earliest of the k feasible grid starts of
\* the day: every returned start is feasible and no feasible start earlier
\* than a returned one is left out; a closed day gives none
C27_FirstFeasibleGridStarts ==
  (probe.fn = "suggestTimes" /\ probe.done
     /\ DayOfDateStr(probe.date) # Invalid
     /\ (probe.durationOverride # 0 \/ probe.serviceName \in DOMAIN SERVICES))
    => LET d == DayOfDateStr(probe.date)
           mins == IF probe.durationOverride # 0 THEN probe.durationOverride
                   ELSE SERVICES[probe.serviceName]
           feasible == FeasibleStarts(d, mins, probe.now, probe.store)
           k == Cardinality(feasible)
           returned == {SlotOf(d, probe.result[i]) : i \in 1..Len(probe.result)}
       IN  IF ~HOURS[WeekdayOf(d * DayMinutes)].isOpen
             THEN probe.result = <<>>
             ELSE /\ Len(probe.result) = IF k < 5 THEN k ELSE 5
                  /\ Cardinality(returned) = Len(probe.result)
                  /\ returned \subseteq feasible
                  /\ \A f \in feasible \ returned : \A t \in returned : t < f
                  /\ \A i \in 1..(Len(probe.result) - 1) :
                       SlotOf(d, probe.result[i]) < SlotOf(d, probe.result[i + 1])

\* Monday with 08:30-09:20 and 12:00-12:35 reserved, asked on the Saturday
\* before: a haircut cannot start at 9:00, 11:30, 12:00 or 12:30, more
\* than five grid starts are feasible, and the first five are returned
C27_Witness ==
  /\ probe.fn = "suggestTimes" /\ probe.done
  /\ probe.date = "2026-02-09"
  /\ probe.serviceName = "Haircut (Standard)" /\ probe.durationOverride = 0
  /\ Cardinality(FeasibleStarts(2, 30, probe.now, probe.store)) > 5
  /\ probe.result = <<"9:30 AM", "10:00 AM", "10:30 AM", "11:00 AM", "1:00 PM">>

\* the conversations whose row, draft or message log a step changes
ChangedConvs ==
  {b \in Convs : \/ status'[b] # status[b]
                 \/ bookingDraft'[b] # bookingDraft[b]
                 \/ messages'[b] # messages[b]}

\* the conversations of the requests a step moves or answers
ActingConvs ==
  (UNION {{req[r].conv, req'[r].conv} : r \in {q \in Requests : req'[q] # req[q]}}
     \cup {out'.conv}) \ {0}

\* C29: every step belongs to the turn of at most one conversation, and the
\* status, the draft and the message log of every other conversation are
\* the same after the step as before it
C29_TurnLeavesOtherConversationsAlone ==
  [][/\ Cardinality(ActingConvs) <= 1
     /\ ChangedConvs \subseteq ActingConvs]_vars

\* a turn of conversation 1 has committed and closed it while conversation
\* 2, begun during that turn, is open with its draft and its messages
C29_Witness ==
  /\ out = [conv |-> 1, reply |-> "booked"]
  /\ status = <<"CLOSED", "OPEN">>
  /\ bookingDraft[1] = DbNull /\ bookingDraft[2] # DbNull
  /\ messages[2] # <<>>

\* log s continues log t: t is s followed by zero or more messages
Extends(t, s) == Len(s) <= Len(t) /\ SubSeq(t, 1, Len(s)) = s

\* USER, AGENT, USER, AGENT, ...
Alternates(log) ==
  \A i \in 1..Len(log) : log[i] = IF i % 2 = 1 THEN "USER" ELSE "AGENT"

\* C30: no step removes or rewrites a message of a conversation's log; the
\* step that begins a turn appends the USER message, the step that returns
\* its reply appends the AGENT message and nothing else, and when no turn
\* of the conversation is in flight its log alternates USER, AGENT
C30_LogAppendOnlyAndAlternating ==
  [][\A c \in Convs :
       /\ Extends(messages'[c], messages[c])
       /\ (out'.conv = c /\ out'.reply # "")
            => /\ Len(messages'[c]) >= 2
               /\ messages'[c][Len(messages'[c])] = "AGENT"
               /\ messages'[c][Len(messages'[c]) - 1] = "USER"
       /\ (\A r \in Requests : req'[r].conv # c) => Alternates(messages'[c])
       /\ (\E r \in Requests : req'[r].conv = c)
            => /\ Alternates(SubSeq(messages'[c], 1, Len(messages'[c]) - 1))
               /\ messages'[c][Len(messages'[c])] = "USER"]_vars

\* two turns of conversation 1 have been answered, the second with a
\* commit, and its log holds their four messages
C30_Witness ==
  /\ out = [conv |-> 1, reply |-> "booked"]
  /\ messages[1] = <<"USER", "AGENT", "USER", "AGENT">>

\* C31: a reservation is created only in a turn that follows an answered
\* turn of the same conversation, the one that showed the summary: when
\* the reservation is created, the conversation's log holds the USER and
\* AGENT messages of that earlier turn before the USER message of the
\* turn that creates it
C31_CommitFollowsAnAnsweredTurn ==
  [][\A r \in Requests :
       (req[r].pc = "create" /\ req'[r].pc = "close")
         => \E i \in 1..(Len(messages[req[r].conv]) - 1) :
              messages[req[r].conv][i] = "AGENT"]_vars

\* C32: no state has a conversation whose reservation is created while the
\* conversation is still OPEN with a complete draft and confirmed = true
\* persisted
C32_CreateAndCloseNotObservedApart ==
  \A c \in Convs :
    ~ /\ committed[c] > 0
      /\ status[c] = "OPEN"
      /\ bookingDraft[c] # DbNull
      /\ AllRequiredSet(draftOrEmpty(bookingDraft[c]))
      /\ draftOrEmpty(bookingDraft[c]).confirmed = "true"

\* the draft field of the response that ends the turn of request r: the
\* local draft of POST (lines 381 and 502), not updatedDraft
responseDraft(r) == req[r].draft

\* the draft field of a greeting or information response (lines 321 and
\* 339): conversation.bookingDraft ?? {} as read at the start of the turn
storedDraft(c) == draftOrEmpty(bookingDraft[c])

\* C33: the draft of the response that ends a turn is the draft persisted
\* for its conversation when the turn ends (the empty draft when DbNull
\* is persisted)
C33_ResponseDraftIsPersistedDraft ==
  [][/\ \A r \in Requests :
          (req[r].pc # "idle" /\ req'[r].pc = "idle")
            => responseDraft(r) = draftOrEmpty(bookingDraft'[req[r].conv])
     /\ out'.reply \in {"greeting", "info"}
          => storedDraft(out'.conv) = draftOrEmpty(bookingDraft'[out'.conv])]_vars

\* the replies of the availability branch (lines 350-370)
AvailabilityReplies ==
  {"availYes", "availMissing", "availInvalid", "availPast", "availTaken",
   "availNotOpen", "availCannot"}

\* C34: the turn of an availability question ends in the step that persists
\* its merged draft: that step answers with an availability reply, writes
\* the merged draft, appends the AGENT message and changes nothing else,
\* so the turn creates no reservation and does not close the conversation;
\* the step that begins it only appends the USER message (and creates the
\* conversation row of a first turn)
C34_AvailabilityTurnIsAdvisory ==
  [][\A r \in Requests :
       /\ (req[r].pc = "idle" /\ req'[r].pc # "idle" /\ req'[r].avail)
            => LET c == req'[r].conv
               IN  /\ req'[r].pc = "persist"
                   /\ UNCHANGED <<bookings, committed, bookingDraft>>
                   /\ status' = [status EXCEPT ![c] =
                                   IF @ = "NONE" THEN "OPEN" ELSE @]
                   /\ messages' = [messages EXCEPT ![c] = Append(@, "USER")]
       /\ (req[r].pc # "idle" /\ req[r].avail /\ req'[r] # req[r])
            => LET c == req[r].conv
               IN  /\ req[r].pc = "persist" /\ req'[r].pc = "idle"
                   /\ out'.conv = c /\ out'.reply \in AvailabilityReplies
                   /\ UNCHANGED <<bookings, committed, status>>
                   /\ bookingDraft' = [bookingDraft EXCEPT ![c] = req[r].draft]
                   /\ messages' = [messages EXCEPT ![c] = Append(@, "AGENT")]]_vars

\* an availability question has been answered for a conversation whose
\* merged draft is complete with confirmed = true: the draft is persisted,
\* the conversation is open and it has no reservation
C34_Witness ==
  /\ out.reply \in AvailabilityReplies
  /\ out.conv = 1
  /\ status[1] = "OPEN"
  /\ bookingDraft[1] # DbNull
  /\ AllRequiredSet(draftOrEmpty(bookingDraft[1]))
  /\ draftOrEmpty(bookingDraft[1]).confirmed = "true"
  /\ committed[1] = 0

\* C35: the step that answers a greeting or an information question
\* leaves every persisted draft, the reservation store and the requests in
\* flight unchanged and changes no status (the row of a first turn's
\* conversation is created OPEN); it appends the USER and the AGENT message
\* to the conversation's log, and the draft it returns is the stored one
C35_GreetingAndInfoChangeNoDraft ==
  [][out'.reply \in {"greeting", "info"}
       => LET c == out'.conv
          IN  /\ UNCHANGED <<bookingDraft, bookings, committed, req>>
              /\ status' = [status EXCEPT ![c] =
                              IF @ = "NONE" THEN "OPEN" ELSE @]
              /\ messages' = [messages EXCEPT ![c] = @ \o <<"USER", "AGENT">>]
              /\ storedDraft(c) = draftOrEmpty(bookingDraft'[c])]_vars

\* the second turn of conversation 1 was an information question holding a
\* confirmation keyword, a date and a time; the complete draft of the first
\* turn is still stored unconfirmed and nothing is reserved
C35_Witness ==
  /\ out = [conv |-> 1, reply |-> "info"]
  /\ status[1] = "OPEN"
  /\ bookingDraft[1] # DbNull
  /\ AllRequiredSet(draftOrEmpty(bookingDraft[1]))
  /\ draftOrEmpty(bookingDraft[1]).confirmed = "undefined"
  /\ draftOrEmpty(bookingDraft[1]).date = "2026-02-09"
  /\ messages[1] = <<"USER", "AGENT", "USER", "AGENT">>
  /\ bookings = <<>>

\* C36: every start suggestTimes returns is later than the clock of the
\* call
C36_SuggestionsAreLaterThanNow ==
  (probe.fn = "suggestTimes" /\ probe.done)
    => \A i \in 1..Len(probe.result) :
         SlotOf(DayOfDateStr(probe.date), probe.result[i]) > probe.now

\* ------------------------------------------------------------------------
\* the weekday resolution of extractBookingInfo called on its own
\* ------------------------------------------------------------------------
\* Saturday 2026-02-07, Sunday and Monday at 00:00, 12:00 and 23:59
WeekdayNows ==
  {d * DayMinutes + m : d \in 0..2, m \in {0, 12 * 60, 23 * 60 + 59}}

\* a text naming a weekday, with or without "next" before it; the regular
\* expression of line 131 makes "next" optional and only its second group,
\* the weekday name, is read (line 133)
InitWeekday ==
  /\ now = StartNow
  /\ bookings = <<>>
  /\ status = [c \in Convs |-> "NONE"]
  /\ bookingDraft = [c \in Convs |-> DbNull]
  /\ req = [r \in Requests |-> IdleReq]
  /\ out = NoReply
  /\ committed = [c \in Convs |-> 0]
  /\ turns = 0
  /\ messages = [c \in Convs |-> <<>>]
  /\ errlog = {}
  /\ probe \in {[fn |-> "computedDate", msg |-> [PlainMsg EXCEPT !.weekday = w],
                  next |-> x, now |-> n, done |-> FALSE, result |-> ""] :
                   w \in DOMAIN weekdayMap, x \in BOOLEAN, n \in WeekdayNows}

ApplyWeekday ==
  /\ probe.fn = "computedDate"
  /\ ~probe.done
  /\ probe' = [probe EXCEPT !.done = TRUE,
                            !.result = computedDate(probe.msg, probe.now)]
  /\ UNCHANGED <<now, bookings, status, bookingDraft, req, out, committed, turns,
               messages, errlog>>

NextWeekday == ApplyWeekday

SpecWeekday == InitWeekday /\ [][NextWeekday]_vars

\* C37: the date computed for a weekday name is 1 to 7 days after today's
\* date and falls on the named weekday; for today's own weekday it is 7
\* days after today
C37_WeekdayResolvesOneToSevenDaysAhead ==
  (probe.fn = "computedDate" /\ probe.done)
    => LET ahead == DayOfDateStr(probe.result) - DayOf(probe.now)
       IN  /\ DayOfDateStr(probe.result) # Invalid
           /\ ahead \in 1..7
           /\ WeekdayOfDate(probe.result) = weekdayMap[probe.msg.weekday]
           /\ weekdayMap[probe.msg.weekday] = WeekdayOf(probe.now) => ahead = 7

\* "next saturday" said on Saturday 2026-02-07 at 23:59 gives 2026-02-14
C37_Witness ==
  /\ probe.fn = "computedDate" /\ probe.done
  /\ probe.now = 23 * 60 + 59
  /\ probe.msg.weekday = "saturday" /\ probe.next
  /\ probe.result = "2026-02-14"

====
